---- MODULE Spec2Model ----
(***************************************************************************)
(* The Intcode virtual machine of adventofcode-2019, in its queue-based    *)
(* suspend/resume form (day17/src/computer.rs): sparse memory, the         *)
(* opcode/mode decoder, the instruction set, the Runnable /                *)
(* WaitingForInput / Done life cycle and the caller-facing operations      *)
(* input(), run(), print_output().                                         *)
(*                                                                         *)
(* Number representation.  TLC integers are 32 bits wide, the program's    *)
(* are 64.  A usize is represented by the i64 with the same bit pattern    *)
(* (so the usize 2^64 - 1 is written -1): `as usize` and `as i64` are bit  *)
(* reinterpretations in the source, HashMap keys are only compared for     *)
(* equality, and the one place where the representation shows is usize     *)
(* addition, which overflows exactly when the represented value crosses    *)
(* from -1 to 0 (UsizeOverflows).  A u32 is represented by its two 16-bit halves *)
(* (AsU32), so that the wrap-around of a negative remainder is kept.  The  *)
(* i64 values of the programs explored under Spec stay inside 32 bits;     *)
(* values beyond are explored under SpecWide, on i64 as eight bytes.       *)
(*                                                                         *)
(* Specifications: Spec (the engine and its caller), SpecDecode (the       *)
(* decoder alone), SpecMemory (Memory alone), SpecWide (the value path on  *)
(* 64-bit cells), SpecLong (one long program run to its end), SpecDay2     *)
(* (the arithmetic-only engine of day2 beside this one), SpecNetwork (the  *)
(* round-robin driver of day23 over several Computers), SpecDay7 (the      *)
(* callback engine of day7 reading from a preloaded list), SpecChain (the  *)
(* amplifier chain of day7 folded over that engine), SpecRobot (the        *)
(* painting robot of day11 as an I/O strategy), SpecGame (the arcade       *)
(* screen of day13 as an I/O strategy), SpecEquiv (the callback engine of  *)
(* day9, its relative_base kept as the eight bytes of a usize, in          *)
(* lockstep with the queue-based engine on the same program and inputs).   *)
(***************************************************************************)
EXTENDS Integers, Sequences, FiniteSets, TLC

VARIABLES
    computer,         \* the Computer: pc, relative_base, state, input, output, memory
    overflow_checks,  \* the build: TRUE = overflow checks on (debug), FALSE = wrapping (release)
    panic,            \* NoPanic, or the diagnostic the process aborted with
    caller,           \* where the caller is: "idle" (between calls) or "run" (inside run()'s loop)
    returned,         \* what the last run() returned: None or Some(v)
    prev,             \* history: the Computer as it was before the last operation
    lastOp,           \* history: the last operation performed
    fed,              \* history: every value passed to input(), in call order
    nread,            \* history: how many Input instructions have completed
    steps,            \* history: how many instructions have been executed
    loaded,           \* history: the program the Computer was constructed from
    resume,           \* history: None, or <<steps, v>> of the last input(v) that woke the Computer
    cell_value,       \* decoder check: the cell value handed to OpcodeModes::parse
    opcode_modes,     \* decoder check: None, or <<the OpcodeModes parsed from cell_value>>
    written,          \* memory check: every <<addr, value>> passed to Memory::set, in call order
    got,              \* memory check: None, or <<addr, value>> of the last Memory::get since the last set
    day2,             \* the arithmetic-only engine: None, or its program, pc and status
    net,              \* the network driver: None, or its instances, NAT, loop position and outcome
    netPrev,          \* history: the network driver as it was before its last step
    day7,             \* the callback engine with a list input: None, or its program, pc, input and status
    io,               \* an I/O strategy object (the robot, the game): None, or its fields
    day9              \* the callback engine with relative addressing: None, or its pc, relative_base, memory and I/O

vars == <<computer, overflow_checks, panic, caller, returned, prev, lastOp, fed, nread, steps,
          loaded, resume, cell_value, opcode_modes, written, got, day2, net, netPrev, day7,
          io, day9>>

\* the variables of the decoder check, which the engine does not touch
decodeVars == <<cell_value, opcode_modes>>

\* the variables of the memory check, which the engine does not touch
memoryVars == <<written, got>>

\* the variables of the other engines and drivers, which this engine does not touch
sideVars == <<day2, net, netPrev, day7, io, day9>>

-----------------------------------------------------------------------------
(* Bounds of the exploration *)

\* input() is called at most MaxInputs times in a run of the model
MaxInputs == 2

\* at most MaxSteps instructions are executed in a run of the model
MaxSteps == 12

\* the values a caller passes to input()
InputValues == {0, 8}

\* the decoder is checked on every cell value from -MaxCell to MaxCell
MaxCell == 30000

\* Memory::set is called at most MaxWrites times in a run of the memory check
MaxWrites == 3

\* at most MaxLongSteps instructions are executed in a run of a long program
MaxLongSteps == 90

\* the network has NumComputers instances (50 in the source), addresses 0..NumComputers-1
NumComputers == 3

\* the driver is followed for MaxPasses passes over the instances
MaxPasses == 7

\* the day7 engine is followed for at most MaxDay7Turns turns of its loop
MaxDay7Turns == 12

\* an I/O strategy object is called at most MaxCalls times in a run of the model
MaxCalls == 6

-----------------------------------------------------------------------------
(* Rust integer arithmetic *)

\* i64 `/` truncates toward zero
TruncDiv(a, b) == IF a >= 0 THEN a \div b ELSE -((-a) \div b)

\* i64 `%` takes the sign of the dividend
TruncRem(a, b) == a - b * TruncDiv(a, b)

\* a u32 literal below 2^16
U32(n) == [hi |-> 0, lo |-> n]

\* `n as u32` for an i64 n (here |n| < 2^31): the low 32 bits, as two 16-bit halves
AsU32(n) ==
    IF n >= 0
    THEN [hi |-> n \div 65536, lo |-> n % 65536]
    ELSE [hi |-> 65535 - ((-n - 1) \div 65536), lo |-> 65535 - ((-n - 1) % 65536)]

\* `v as usize` for an i64 v: the same bits (see the header)
AsUsize(v) == v

\* usize u + k (k > 0) overflows when the represented value passes 2^64 - 1
UsizeOverflows(u, k) == u < 0 /\ u + k >= 0

NoPanic == <<>>

OverflowPanic == <<"attempt to add with overflow">>

-----------------------------------------------------------------------------
(* Memory *)

Memory_for_program(program) == [a \in 0..(Len(program) - 1) |-> program[a + 1]]

Memory_get(memory, addr) == IF addr \in DOMAIN memory THEN memory[addr] ELSE 0

\* mutant: set() keeps the value of an address that already has one (or_insert)
Memory_set_KeepsExisting(memory, addr, value) ==
    [a \in (DOMAIN memory) \cup {addr} |-> IF a \in DOMAIN memory THEN memory[a] ELSE value]

Memory_set(memory, addr, value) ==
    [a \in (DOMAIN memory) \cup {addr} |-> IF a = addr THEN value ELSE memory[a]]

-----------------------------------------------------------------------------
(* OpcodeModes *)

\* mutant: the digits are collected most-significant first
RECURSIVE ModeDigits_MostSignificantFirst(_)
ModeDigits_MostSignificantFirst(parsing_number) ==
    IF parsing_number > 0
    THEN ModeDigits_MostSignificantFirst(TruncDiv(parsing_number, 10))
             \o <<AsU32(TruncRem(parsing_number, 10))>>
    ELSE <<>>

RECURSIVE ModeDigits(_)
ModeDigits(parsing_number) ==
    IF parsing_number > 0
    THEN <<AsU32(TruncRem(parsing_number, 10))>> \o ModeDigits(TruncDiv(parsing_number, 10))
    ELSE <<>>

OpcodeModes_parse(number) ==
    [opcode |-> AsU32(TruncRem(number, 100)),
     modes  |-> ModeDigits(TruncDiv(number, 100))]

parameter_mode(om, index) ==
    IF index < Len(om.modes) THEN om.modes[index + 1] ELSE U32(0)

\* computer.memory.get(computer.pc + parameter + 1), or the overflow of that sum
ParameterCell(c, p, checks) ==
    IF UsizeOverflows(c.pc, p + 1) /\ checks
    THEN [kind |-> "Panic", panic |-> OverflowPanic]
    ELSE [kind |-> "Cell", v |-> Memory_get(c.memory, c.pc + p + 1)]

\* mutant: a read parameter with an unknown mode digit is taken as a position
OpcodeModes_parameter_AnyMode(om, c, p, checks) ==
    LET mode == parameter_mode(om, p)
        cell == ParameterCell(c, p, checks)
    IN  IF cell.kind = "Panic" THEN cell
        ELSE CASE mode = U32(1) -> [kind |-> "Immediate", v |-> cell.v]
               [] mode = U32(2) -> [kind |-> "Relative", v |-> AsUsize(cell.v + c.relative_base)]
               [] OTHER -> [kind |-> "Position", v |-> AsUsize(cell.v)]

OpcodeModes_parameter(om, c, p, checks) ==
    LET mode == parameter_mode(om, p)
        cell == ParameterCell(c, p, checks)
    IN  IF cell.kind = "Panic" THEN cell
        ELSE CASE mode = U32(0) -> [kind |-> "Position", v |-> AsUsize(cell.v)]
               [] mode = U32(1) -> [kind |-> "Immediate", v |-> cell.v]
               [] mode = U32(2) -> [kind |-> "Relative", v |-> AsUsize(cell.v + c.relative_base)]
               [] OTHER -> [kind |-> "Panic", panic |-> <<"Invalid parameter mode", mode>>]

\* mutant: a write target is taken as a position whatever its mode digit
OpcodeModes_index_parameter_AnyMode(om, c, p, checks) ==
    LET cell == ParameterCell(c, p, checks)
    IN  IF cell.kind = "Panic" THEN cell
        ELSE IF parameter_mode(om, p) = U32(2)
             THEN [kind |-> "Index", v |-> AsUsize(cell.v + c.relative_base)]
             ELSE [kind |-> "Index", v |-> AsUsize(cell.v)]

\* mutant: a write target in Relative mode is taken as a position
OpcodeModes_index_parameter_IgnoresRelativeBase(om, c, p, checks) ==
    LET mode == parameter_mode(om, p)
        cell == ParameterCell(c, p, checks)
    IN  IF cell.kind = "Panic" THEN cell
        ELSE CASE mode = U32(0) \/ mode = U32(1) \/ mode = U32(2) -> [kind |-> "Index", v |-> AsUsize(cell.v)]
               [] OTHER -> [kind |-> "Panic", panic |-> <<"Invalid parameter index for mode", mode>>]

OpcodeModes_index_parameter(om, c, p, checks) ==
    LET mode == parameter_mode(om, p)
        cell == ParameterCell(c, p, checks)
    IN  IF cell.kind = "Panic" THEN cell
        ELSE CASE mode = U32(0) \/ mode = U32(1) -> [kind |-> "Index", v |-> AsUsize(cell.v)]
               [] mode = U32(2) -> [kind |-> "Index", v |-> AsUsize(cell.v + c.relative_base)]
               [] OTHER -> [kind |-> "Panic", panic |-> <<"Invalid parameter index for mode", mode>>]

Parameter_value(param, memory) ==
    CASE param.kind = "Position"  -> Memory_get(memory, param.v)
      [] param.kind = "Immediate" -> param.v
      [] param.kind = "Relative"  -> Memory_get(memory, param.v)

-----------------------------------------------------------------------------
(* Instruction::parse *)

\* the first panic among the parameters, in evaluation order, else the instruction
Decoded(params, instruction) ==
    IF \E i \in 1..Len(params) : params[i].kind = "Panic"
    THEN LET first == CHOOSE i \in 1..Len(params) :
                          /\ params[i].kind = "Panic"
                          /\ \A j \in 1..(i - 1) : params[j].kind # "Panic"
         IN  [op |-> "Panic", panic |-> params[first].panic]
    ELSE instruction

ParseThree(op, om, c, checks) ==
    LET a   == OpcodeModes_parameter(om, c, 0, checks)
        b   == OpcodeModes_parameter(om, c, 1, checks)
        out == OpcodeModes_index_parameter(om, c, 2, checks)
    IN  Decoded(<<a, b, out>>, [op |-> op, a |-> a, b |-> b, out |-> out.v])

ParseInput(om, c, checks) ==
    LET to == OpcodeModes_index_parameter(om, c, 0, checks)
    IN  Decoded(<<to>>, [op |-> "Input", to |-> to.v])

ParseOutput(om, c, checks) ==
    LET from == OpcodeModes_parameter(om, c, 0, checks)
    IN  Decoded(<<from>>, [op |-> "Output", from |-> from])

ParseJump(op, om, c, checks) ==
    LET what == OpcodeModes_parameter(om, c, 0, checks)
        to   == OpcodeModes_parameter(om, c, 1, checks)
    IN  Decoded(<<what, to>>, [op |-> op, what |-> what, to |-> to])

ParseRelativeBaseOffset(om, c, checks) ==
    LET by == OpcodeModes_parameter(om, c, 0, checks)
    IN  Decoded(<<by>>, [op |-> "RelativeBaseOffset", by |-> by])

\* mutant: a cell with an unknown opcode is taken as Halt
Instruction_parse_UnknownHalts(c, checks) ==
    LET pc == c.pc
        om == OpcodeModes_parse(Memory_get(c.memory, pc))
    IN  CASE om.opcode = U32(1)  -> ParseThree("Add", om, c, checks)
          [] om.opcode = U32(2)  -> ParseThree("Multiply", om, c, checks)
          [] om.opcode = U32(3)  -> ParseInput(om, c, checks)
          [] om.opcode = U32(4)  -> ParseOutput(om, c, checks)
          [] om.opcode = U32(5)  -> ParseJump("JumpIfTrue", om, c, checks)
          [] om.opcode = U32(6)  -> ParseJump("JumpIfFalse", om, c, checks)
          [] om.opcode = U32(7)  -> ParseThree("LessThan", om, c, checks)
          [] om.opcode = U32(8)  -> ParseThree("Equals", om, c, checks)
          [] om.opcode = U32(9)  -> ParseRelativeBaseOffset(om, c, checks)
          [] om.opcode = U32(99) -> [op |-> "Halt"]
          [] OTHER -> [op |-> "Halt"]

Instruction_parse(c, checks) ==
    LET pc == c.pc
        om == OpcodeModes_parse(Memory_get(c.memory, pc))
    IN  CASE om.opcode = U32(1)  -> ParseThree("Add", om, c, checks)
          [] om.opcode = U32(2)  -> ParseThree("Multiply", om, c, checks)
          [] om.opcode = U32(3)  -> ParseInput(om, c, checks)
          [] om.opcode = U32(4)  -> ParseOutput(om, c, checks)
          [] om.opcode = U32(5)  -> ParseJump("JumpIfTrue", om, c, checks)
          [] om.opcode = U32(6)  -> ParseJump("JumpIfFalse", om, c, checks)
          [] om.opcode = U32(7)  -> ParseThree("LessThan", om, c, checks)
          [] om.opcode = U32(8)  -> ParseThree("Equals", om, c, checks)
          [] om.opcode = U32(9)  -> ParseRelativeBaseOffset(om, c, checks)
          [] om.opcode = U32(99) -> [op |-> "Halt"]
          [] OTHER -> [op |-> "Panic", panic |-> <<"Unknown opcode", om.opcode, "at pc", pc>>]

-----------------------------------------------------------------------------
(* Instruction::run: each returns the Computer, the ProgramState returned and
   the panic, if any.  c is the Computer after the instruction's own effect,
   pc the program counter read at entry. *)

\* `computer.pc = pc + n; ProgramState::Runnable`
Advance(c, pc, n, checks) ==
    IF UsizeOverflows(pc, n) /\ checks
    THEN [c |-> c, state |-> c.state, panic |-> OverflowPanic]
    ELSE [c |-> [c EXCEPT !.pc = pc + n], state |-> "Runnable", panic |-> NoPanic]

\* `computer.pc = target as usize; ProgramState::Runnable`
Jump(c, target) ==
    [c |-> [c EXCEPT !.pc = AsUsize(target)], state |-> "Runnable", panic |-> NoPanic]

\* mutant: Add computes the product
run_Add_Multiplies(c, a, b, out, checks) ==
    LET result == Parameter_value(a, c.memory) * Parameter_value(b, c.memory)
    IN  Advance([c EXCEPT !.memory = Memory_set(c.memory, out, result)], c.pc, 4, checks)

\* mutant: Add also clears the cell that follows its target
run_Add_WritesTwo(c, a, b, out, checks) ==
    LET result == Parameter_value(a, c.memory) + Parameter_value(b, c.memory)
    IN  Advance([c EXCEPT !.memory = Memory_set(Memory_set(c.memory, out, result), out + 1, 0)],
                c.pc, 4, checks)

run_Add(c, a, b, out, checks) ==
    LET result == Parameter_value(a, c.memory) + Parameter_value(b, c.memory)
    IN  Advance([c EXCEPT !.memory = Memory_set(c.memory, out, result)], c.pc, 4, checks)

run_Multiply(c, a, b, out, checks) ==
    LET result == Parameter_value(a, c.memory) * Parameter_value(b, c.memory)
    IN  Advance([c EXCEPT !.memory = Memory_set(c.memory, out, result)], c.pc, 4, checks)

\* mutant: a starved Input still moves past the instruction
run_Input_StarvedAdvances(c, to, checks) ==
    IF c.input # <<>>
    THEN Advance([c EXCEPT !.input = Tail(c.input),
                           !.memory = Memory_set(c.memory, to, Head(c.input))],
                 c.pc, 2, checks)
    ELSE [c |-> [c EXCEPT !.pc = c.pc + 2], state |-> "WaitingForInput", panic |-> NoPanic]

\* mutant: Input takes the newest queued value (pop_back)
run_Input_Lifo(c, to, checks) ==
    IF c.input # <<>>
    THEN Advance([c EXCEPT !.input = SubSeq(c.input, 1, Len(c.input) - 1),
                           !.memory = Memory_set(c.memory, to, c.input[Len(c.input)])],
                 c.pc, 2, checks)
    ELSE [c |-> c, state |-> "WaitingForInput", panic |-> NoPanic]

run_Input(c, to, checks) ==
    IF c.input # <<>>
    THEN Advance([c EXCEPT !.input = Tail(c.input),
                           !.memory = Memory_set(c.memory, to, Head(c.input))],
                 c.pc, 2, checks)
    ELSE [c |-> c, state |-> "WaitingForInput", panic |-> NoPanic]

\* mutant: Output puts its value at the front of the queue (push_front)
run_Output_PushFront(c, from, checks) ==
    Advance([c EXCEPT !.output = <<Parameter_value(from, c.memory)>> \o c.output],
            c.pc, 2, checks)

run_Output(c, from, checks) ==
    Advance([c EXCEPT !.output = Append(c.output, Parameter_value(from, c.memory))],
            c.pc, 2, checks)

run_JumpIfTrue(c, what, to, checks) ==
    IF Parameter_value(what, c.memory) # 0
    THEN Jump(c, Parameter_value(to, c.memory))
    ELSE Advance(c, c.pc, 3, checks)

\* mutant: JumpIfFalse jumps on a non-zero value, as JumpIfTrue does
run_JumpIfFalse_WhenNonZero(c, what, to, checks) ==
    IF Parameter_value(what, c.memory) # 0
    THEN Jump(c, Parameter_value(to, c.memory))
    ELSE Advance(c, c.pc, 3, checks)

run_JumpIfFalse(c, what, to, checks) ==
    IF Parameter_value(what, c.memory) = 0
    THEN Jump(c, Parameter_value(to, c.memory))
    ELSE Advance(c, c.pc, 3, checks)

\* mutant: LessThan compares with <=
run_LessThan_OrEqual(c, a, b, out, checks) ==
    LET result == IF Parameter_value(a, c.memory) <= Parameter_value(b, c.memory) THEN 1 ELSE 0
    IN  Advance([c EXCEPT !.memory = Memory_set(c.memory, out, result)], c.pc, 4, checks)

run_LessThan(c, a, b, out, checks) ==
    LET result == IF Parameter_value(a, c.memory) < Parameter_value(b, c.memory) THEN 1 ELSE 0
    IN  Advance([c EXCEPT !.memory = Memory_set(c.memory, out, result)], c.pc, 4, checks)

\* mutant: Equals compares with <, as LessThan does
run_Equals_LessThan(c, a, b, out, checks) ==
    LET result == IF Parameter_value(a, c.memory) < Parameter_value(b, c.memory) THEN 1 ELSE 0
    IN  Advance([c EXCEPT !.memory = Memory_set(c.memory, out, result)], c.pc, 4, checks)

run_Equals(c, a, b, out, checks) ==
    LET result == IF Parameter_value(a, c.memory) = Parameter_value(b, c.memory) THEN 1 ELSE 0
    IN  Advance([c EXCEPT !.memory = Memory_set(c.memory, out, result)], c.pc, 4, checks)

\* mutant: RelativeBaseOffset replaces relative_base instead of adding to it
run_RelativeBaseOffset_Sets(c, by, checks) ==
    LET based == [c EXCEPT !.relative_base = Parameter_value(by, c.memory)]
    IN  Advance(based, based.pc, 2, checks)

run_RelativeBaseOffset(c, by, checks) ==
    LET based == [c EXCEPT !.relative_base = c.relative_base + Parameter_value(by, c.memory)]
    IN  Advance(based, based.pc, 2, checks)

\* mutant: the Halt arm aborts, as the callback engines' run_instruction does
run_Halt_Panics(c) == [c |-> c, state |-> c.state, panic |-> <<"Halt should not be run.">>]

run_Halt(c) == [c |-> c, state |-> "Done", panic |-> NoPanic]

Instruction_run(i, c, checks) ==
    CASE i.op = "Add"                -> run_Add(c, i.a, i.b, i.out, checks)
      [] i.op = "Multiply"           -> run_Multiply(c, i.a, i.b, i.out, checks)
      [] i.op = "Input"              -> run_Input(c, i.to, checks)
      [] i.op = "Output"             -> run_Output(c, i.from, checks)
      [] i.op = "JumpIfTrue"         -> run_JumpIfTrue(c, i.what, i.to, checks)
      [] i.op = "JumpIfFalse"        -> run_JumpIfFalse(c, i.what, i.to, checks)
      [] i.op = "LessThan"           -> run_LessThan(c, i.a, i.b, i.out, checks)
      [] i.op = "Equals"             -> run_Equals(c, i.a, i.b, i.out, checks)
      [] i.op = "RelativeBaseOffset" -> run_RelativeBaseOffset(c, i.by, checks)
      [] i.op = "Halt"               -> run_Halt(c)

-----------------------------------------------------------------------------
(* Computer *)

None == <<>>

Some(v) == <<v>>

Computer_new(program) ==
    [pc            |-> 0,
     relative_base |-> 0,
     state         |-> "Runnable",
     input         |-> <<>>,
     output        |-> <<>>,
     memory        |-> Memory_for_program(program)]

\* mutant: input() makes the Computer Runnable whatever its state
Computer_input_AlwaysRunnable(c, value) ==
    [c EXCEPT !.input = Append(c.input, value), !.state = "Runnable"]

\* mutant: input() only queues the value
Computer_input_NoWake(c, value) ==
    [c EXCEPT !.input = Append(c.input, value)]

Computer_input(c, value) ==
    LET pushed == [c EXCEPT !.input = Append(c.input, value)]
    IN  IF pushed.state = "WaitingForInput"
        THEN [pushed EXCEPT !.state = "Runnable"]
        ELSE pushed

\* mutant: the oldest value of the output queue (front) is returned
last_output_Front(c) == IF c.output = <<>> THEN None ELSE Some(Head(c.output))

last_output(c) == IF c.output = <<>> THEN None ELSE Some(c.output[Len(c.output)])

print_output(c) == [c EXCEPT !.output = <<>>]

\* mutant: everything but a halted Computer counts as runnable
is_runnable_NotDone(c) == c.state # "Done"

is_runnable(c) == c.state = "Runnable"

\* mutant: the instruction is decoded from the program as loaded, not from memory
Computer_step_DecodesLoaded(c, checks) ==
    LET i == Instruction_parse([c EXCEPT !.memory = Memory_for_program(loaded)], checks)
    IN  IF i.op = "Panic"
        THEN [c |-> c, panic |-> i.panic]
        ELSE LET r == Instruction_run(i, c, checks)
             IN  IF r.panic # NoPanic
                 THEN [c |-> r.c, panic |-> r.panic]
                 ELSE [c |-> [r.c EXCEPT !.state = r.state], panic |-> NoPanic]

\* self.state = Instruction::parse(self).run(self)
Computer_step(c, checks) ==
    LET i == Instruction_parse(c, checks)
    IN  IF i.op = "Panic"
        THEN [c |-> c, panic |-> i.panic]
        ELSE LET r == Instruction_run(i, c, checks)
             IN  IF r.panic # NoPanic
                 THEN [c |-> r.c, panic |-> r.panic]
                 ELSE [c |-> [r.c EXCEPT !.state = r.state], panic |-> NoPanic]


-----------------------------------------------------------------------------
(* The other engines and drivers at rest, while this engine is explored *)

Day2Idle == day2 = None

NetworkIdle == net = None /\ netPrev = None

Day7Idle == day7 = None

IoIdle == io = None /\ day9 = None

SideIdle == Day2Idle /\ NetworkIdle /\ Day7Idle /\ IoIdle

-----------------------------------------------------------------------------
(* The programs explored *)

\* programs of the repository's tests and of the specification's examples
TestPrograms ==
    { <<3, 0, 99>>,
      <<4, 0, 99>>,
      <<104, 50, 99>>,
      <<3, 0, 4, 0, 99>>,
      <<3, 3, 104, 0, 99>>,
      <<1, 9, 10, 3, 2, 3, 11, 0, 99, 30, 40, 50>>,
      <<1101, 100, -1, 4, 0>>,
      <<101, 2, 3, 4, 99>>,
      <<102, 2, 3, 4, 99>>,
      <<1101, 2, 3, 5, 99>>,
      <<1102, 2, 3, 5, 99>>,
      <<1107, 3, 2, 5, 99>>,
      <<1108, 5, 5, 5, 1108, 5, 6, 5, 99>>,
      <<107, 2, 1, 0, 1107, 2, 3, 1, 99>>,
      <<108, 2, 1, 0, 1108, 2, 3, 1, 99>>,
      <<105, 2, 3, 4, 1105, 0, 0, 99>>,
      <<106, 0, 3, 4, 1106, 1, 0, 99>>,
      <<3, 9, 8, 9, 10, 9, 4, 9, 99, -1, 8>>,
      <<3, 9, 7, 9, 10, 9, 4, 9, 99, -1, 8>>,
      <<3, 3, 1108, -1, 8, 3, 4, 3, 99>>,
      <<3, 3, 1107, -1, 8, 3, 4, 3, 99>>,
      <<3, 12, 6, 12, 15, 1, 13, 14, 13, 4, 13, 99, -1, 0, 1, 9>>,
      <<3, 3, 1105, -1, 9, 1101, 0, 0, 12, 4, 12, 99, 1>>,
      <<109, 1, 209, -1, 204, -106, 99>>,
      <<109, 1, 3, 3, 204, 2, 99>>,
      <<109, 1, 203, 2, 204, 2, 99>> }

\* programs that read and write repeatedly, suspend more than once, jump to a
\* written cell at the top of the address space, or are malformed
EdgePrograms ==
    { <<3, 9, 4, 9, 1105, 1, 0>>,
      <<3, 11, 3, 12, 4, 12, 4, 11, 99>>,
      <<104, 1, 104, 2, 3, 0, 104, 3, 99>>,
      <<109, -3, 21101, 5, 6, 3, 204, 3, 99>>,
      <<109, 2000, 21101, 5, 6, -1, 204, -1, 4, 1999, 99>>,
      <<109, -1, 204, 1, 99>>,
      <<109, -3, 204, 1, 99>>,
      <<109, -3, 21101, 5, 6, 1, 204, 1, 99>>,
      <<1101, 1100, 1, -4, 1105, 1, -4>>,
      <<1101, 1100, 1, -2, 1105, 1, -2>>,
      <<1101, 103, 1, -1, 1105, 1, -1>>,
      <<1101, 3, 0, -2, 1105, 1, -2>>,
      <<301, 0, 0, 0, 99>>,
      <<30001, 0, 0, 0, 99>>,
      <<399>>,
      <<0>>,
      <<-1>>,
      <<-199, 0, 0, 0, 99>>,
      <<-100>>,
      <<109, 5, 104, 7, 3, 0, 1100>>,
      <<104, 7, 3, 0, 3, 1, 99>>,
      <<1199, 0, 0, 0, 99>> }

\* the cell opcode + 100 * m1 + 1000 * m2 + 10000 * m3
Cell(opcode, m1, m2, m3) == opcode + 100 * m1 + 1000 * m2 + 10000 * m3

\* every opcode in every combination of its parameters' modes 0, 1, 2
ModeCells ==
    { Cell(o, m1, m2, m3) : o \in {1, 2, 7, 8}, m1 \in 0..2, m2 \in 0..2, m3 \in 0..2 }
    \cup { Cell(o, m1, m2, 0) : o \in {5, 6}, m1 \in 0..2, m2 \in 0..2 }
    \cup { Cell(o, m1, 0, 0) : o \in {3, 4, 9}, m1 \in 0..2 }

\* the operands <<a, b, out>> of the instruction under test
Operands == { <<-1, 3, 5>>, <<3, 6, 0>>, <<3, 3, 5>> }

\* one instruction in each of its forms, over small operands, after setting
\* relative_base to 1
ModePrograms ==
    { <<109, 1, op, o[1], o[2], o[3], 99>> : op \in ModeCells, o \in Operands }

\* one instruction with one mode digit outside {0, 1, 2}: on each parameter
\* position, used by the opcode or not, and on Halt
InvalidModePrograms ==
    { <<109, 1, opcode + digit * place, 3, 3, 5, 99>> :
          opcode \in 1..9, digit \in {3, 9}, place \in {100, 1000, 10000} }
    \cup { <<3000001, 0, 0, 0, 99>>, <<109, 1, 30099>> }

Programs == TestPrograms \cup EdgePrograms \cup ModePrograms \cup InvalidModePrograms

-----------------------------------------------------------------------------
(* The caller: construct, then any sequence of input(v), run(), print_output().
   run() is a loop of steps; the caller is inside it (caller = "run") from
   its entry until it returns or the process aborts, and nothing else
   happens meanwhile. *)

\* the cell at pc holds a well-formed instruction with this opcode
AtOpcode(c, opcode) ==
    LET cell == Memory_get(c.memory, c.pc)
    IN  cell >= 0 /\ cell % 100 = opcode

Init ==
    /\ loaded \in Programs
    /\ computer = Computer_new(loaded)
    /\ overflow_checks \in BOOLEAN
    /\ panic = NoPanic
    /\ caller = "idle"
    /\ returned = None
    /\ prev = computer
    /\ lastOp = "new"
    /\ fed = <<>>
    /\ nread = 0
    /\ steps = 0
    /\ resume = None
    /\ cell_value = 0
    /\ opcode_modes = None
    /\ written = <<>>
    /\ got = None
    /\ SideIdle

CallInput(value) ==
    /\ caller = "idle"
    /\ Len(fed) < MaxInputs
    /\ computer' = Computer_input(computer, value)
    /\ fed' = Append(fed, value)
    /\ prev' = computer
    /\ lastOp' = "input"
    /\ resume' = IF computer.state = "WaitingForInput" THEN <<steps, value>> ELSE resume
    /\ UNCHANGED <<overflow_checks, panic, caller, returned, nread, steps, loaded, decodeVars, memoryVars, sideVars>>

CallPrintOutput ==
    /\ caller = "idle"
    /\ computer' = print_output(computer)
    /\ prev' = computer
    /\ lastOp' = "print_output"
    /\ UNCHANGED <<overflow_checks, panic, caller, returned, fed, nread, steps, loaded, resume, decodeVars, memoryVars, sideVars>>

CallRun ==
    /\ caller = "idle"
    /\ caller' = "run"
    /\ prev' = computer
    /\ lastOp' = "run"
    /\ UNCHANGED <<computer, overflow_checks, panic, returned, fed, nread, steps, loaded, resume, decodeVars, memoryVars, sideVars>>

\* one turn of run()'s loop, while fewer than limit instructions were executed
RunStepWithin(limit) ==
    /\ caller = "run"
    /\ is_runnable(computer)
    /\ steps < limit
    /\ LET r == Computer_step(computer, overflow_checks)
       IN  /\ computer' = r.c
           /\ panic' = r.panic
           /\ caller' = IF r.panic = NoPanic THEN "run" ELSE "aborted"
           /\ lastOp' = IF r.panic = NoPanic THEN "step" ELSE "panic"
           /\ nread' = IF AtOpcode(computer, 3) /\ r.panic = NoPanic /\ r.c.state = "Runnable"
                       THEN nread + 1
                       ELSE nread
    /\ prev' = computer
    /\ steps' = steps + 1
    /\ UNCHANGED <<overflow_checks, returned, fed, loaded, resume, decodeVars, memoryVars, sideVars>>

RunStep == RunStepWithin(MaxSteps)

RunReturn ==
    /\ caller = "run"
    /\ ~is_runnable(computer)
    /\ returned' = last_output(computer)
    /\ caller' = "idle"
    /\ prev' = computer
    /\ lastOp' = "return"
    /\ UNCHANGED <<computer, overflow_checks, panic, fed, nread, steps, loaded, resume, decodeVars, memoryVars, sideVars>>

Next ==
    \/ \E value \in InputValues : CallInput(value)
    \/ CallPrintOutput
    \/ CallRun
    \/ RunStep
    \/ RunReturn

Spec == Init /\ [][Next]_vars

-----------------------------------------------------------------------------
(* A long run: the program of run_example_1, which copies itself to the
   output, run to its end with no input. *)

Quine == <<109, 1, 204, -1, 1001, 100, 1, 100, 1008, 100, 16, 101, 1006, 101, 0, 99>>

InitLong ==
    /\ loaded = Quine
    /\ computer = Computer_new(loaded)
    /\ overflow_checks \in BOOLEAN
    /\ panic = NoPanic
    /\ caller = "idle"
    /\ returned = None
    /\ prev = computer
    /\ lastOp = "new"
    /\ fed = <<>>
    /\ nread = 0
    /\ steps = 0
    /\ resume = None
    /\ cell_value = 0
    /\ opcode_modes = None
    /\ written = <<>>
    /\ got = None
    /\ SideIdle

LongStep == RunStepWithin(MaxLongSteps)

NextLong ==
    \/ CallRun
    \/ LongStep
    \/ RunReturn
    \/ CallPrintOutput

SpecLong == InitLong /\ [][NextLong]_vars


-----------------------------------------------------------------------------
(* The arithmetic-only engine (day2/src/main.rs): run_program over a
   Vec<i32>, one turn of its while loop per step, side by side with the
   Computer built from the same program. *)

IndexPanic(index, len) == <<"index out of bounds", index, len>>

\* the first of the indexes that is outside the vector, else None
FirstOutside(indexes, len) ==
    IF \E i \in 1..Len(indexes) : indexes[i] \notin 0..(len - 1)
    THEN Some(indexes[CHOOSE i \in 1..Len(indexes) :
                          /\ indexes[i] \notin 0..(len - 1)
                          /\ \A j \in 1..(i - 1) : indexes[j] \in 0..(len - 1)])
    ELSE None

Day2_abort(d, diagnostic) == [d EXCEPT !.status = "aborted", !.panic = diagnostic]

\* mutant: opcode 2 adds, as opcode 1 does
Day2_turn_AddOnly(d) ==
    LET program == d.program
        len     == Len(program)
        pc      == d.pc
        cells   == FirstOutside(<<pc, pc + 1, pc + 2, pc + 3>>, len)
    IN  IF pc \notin 0..(len - 1) THEN Day2_abort(d, IndexPanic(pc, len))
        ELSE IF program[pc + 1] = 99 THEN [d EXCEPT !.status = "done"]
        ELSE IF cells # None THEN Day2_abort(d, IndexPanic(cells[1], len))
        ELSE LET source_index_1 == AsUsize(program[pc + 2])
                 source_index_2 == AsUsize(program[pc + 3])
                 result_index   == AsUsize(program[pc + 4])
                 used == FirstOutside(<<source_index_1, source_index_2, result_index>>, len)
             IN  IF program[pc + 1] \notin {1, 2}
                 THEN Day2_abort(d, <<"Unknown opcode", program[pc + 1], "at position", pc>>)
                 ELSE IF used # None THEN Day2_abort(d, IndexPanic(used[1], len))
                 ELSE [d EXCEPT
                          !.program[result_index + 1] =
                              program[source_index_1 + 1] + program[source_index_2 + 1],
                          !.pc = pc + 4]

\* one turn of `while program[pc] != 99 { ... pc += 4 }` (vectors are 1-based here)
Day2_turn(d) ==
    LET program == d.program
        len     == Len(program)
        pc      == d.pc
        cells   == FirstOutside(<<pc, pc + 1, pc + 2, pc + 3>>, len)
    IN  IF pc \notin 0..(len - 1) THEN Day2_abort(d, IndexPanic(pc, len))
        ELSE IF program[pc + 1] = 99 THEN [d EXCEPT !.status = "done"]
        ELSE IF cells # None THEN Day2_abort(d, IndexPanic(cells[1], len))
        ELSE LET source_index_1 == AsUsize(program[pc + 2])
                 source_index_2 == AsUsize(program[pc + 3])
                 result_index   == AsUsize(program[pc + 4])
                 used == FirstOutside(<<source_index_1, source_index_2, result_index>>, len)
             IN  IF program[pc + 1] \notin {1, 2}
                 THEN Day2_abort(d, <<"Unknown opcode", program[pc + 1], "at position", pc>>)
                 ELSE IF used # None THEN Day2_abort(d, IndexPanic(used[1], len))
                 ELSE [d EXCEPT
                          !.program[result_index + 1] =
                              IF program[pc + 1] = 1
                              THEN program[source_index_1 + 1] + program[source_index_2 + 1]
                              ELSE program[source_index_1 + 1] * program[source_index_2 + 1],
                          !.pc = pc + 4]

\* the examples of day 2 (run_program::add_multiply) and malformed programs
Day2Programs ==
    { <<1, 9, 10, 3, 2, 3, 11, 0, 99, 30, 40, 50>>,
      <<1, 0, 0, 0, 99>>,
      <<2, 3, 0, 3, 99>>,
      <<2, 4, 4, 5, 99, 0>>,
      <<1, 1, 1, 4, 99, 5, 6, 0, 99>>,
      <<99>>,
      <<1, 0, 0, 0>>,
      <<3, 0, 0, 0, 99>>,
      <<1, 0, 0, 9, 99>>,
      <<2, -1, 0, 0, 99>>,
      <<1, 0, 0, 0, 1, 0>> }

InitDay2 ==
    /\ loaded \in Day2Programs
    /\ computer = Computer_new(loaded)
    /\ day2 = [program |-> loaded, pc |-> 0, status |-> "running", panic |-> NoPanic]
    /\ overflow_checks \in BOOLEAN
    /\ panic = NoPanic
    /\ caller = "idle"
    /\ returned = None
    /\ prev = computer
    /\ lastOp = "new"
    /\ fed = <<>>
    /\ nread = 0
    /\ steps = 0
    /\ resume = None
    /\ cell_value = 0
    /\ opcode_modes = None
    /\ written = <<>>
    /\ got = None
    /\ NetworkIdle
    /\ Day7Idle
    /\ IoIdle

Day2Step ==
    /\ day2.status = "running"
    /\ day2' = Day2_turn(day2)
    /\ UNCHANGED <<computer, overflow_checks, panic, caller, returned, prev, lastOp, fed,
                   nread, steps, loaded, resume, decodeVars, memoryVars, net, netPrev, day7,
                   io, day9>>

NextDay2 ==
    \/ Day2Step
    \/ CallRun
    \/ RunStep
    \/ RunReturn

SpecDay2 == InitDay2 /\ [][NextDay2]_vars

-----------------------------------------------------------------------------
(* The network driver (day23/src/main.rs): part1 and part2 boot several
   Computers from one program, each with its address as first input, and
   visit them in round-robin order.  One step of the model is one stage of
   a visit (the sentinel test, one instruction of run(), the drain, one
   window of the routing loop) or the NAT's turn at the end of a pass of part2.  The day23 copy
   of the Computer is the one modelled above, plus dump_output.

   The driver's record: part (1 or 2), networked_computers, nat_x, nat_y,
   last_delivered_y, idle, i (the instance being visited), output and
   window (the drained Vec and the index of the next chunk), at (the stage:
   "visit", "run", "dump", "route", "nat", "returned", "aborted"), result
   and panic; and, as history, passes (passes completed), delivered (every
   packet the NAT injected), starved and produced (per visit of the current
   pass: whether the instance was WaitingForInput with an empty queue, and
   how many values it output) and done_seen (some instance was Done when
   it was visited, in this pass or an earlier one). *)

\* dump_output(): hands the output queue over and leaves it empty
dump_output(c) == [output |-> c.output, c |-> [c EXCEPT !.output = <<>>]]

\* (0..50).map(|i| { clone; input(i) }), for NumComputers instances
Boot(program) == [a \in 1..NumComputers |-> Computer_input(Computer_new(program), a - 1)]

\* mutant: an instance with an empty input queue counts as starved, whatever its state
Starved_EmptyQueue(comp) == comp.input = <<>>

\* comp.state == WaitingForInput && comp.input.is_empty()
Starved(comp) == comp.state = "WaitingForInput" /\ comp.input = <<>>

Net_abort(n, diagnostic) == [n EXCEPT !.at = "aborted", !.panic = diagnostic]

\* mutant: a halted instance does not clear the idle flag
Net_feed_DoneCountsIdle(n) ==
    LET comp == n.networked_computers[n.i + 1]
        seen == [n EXCEPT !.starved = Append(@, comp.state = "WaitingForInput" /\ comp.input = <<>>),
                          !.done_seen = @ \/ comp.state = "Done"]
    IN  IF Starved(comp)
        THEN [seen EXCEPT !.networked_computers[n.i + 1] = Computer_input(comp, -1),
                          !.at = "run"]
        ELSE [seen EXCEPT !.idle = IF n.part = 2 /\ comp.state # "Done" THEN FALSE ELSE @,
                          !.at = "run"]

\* the sentinel test at the head of a visit
Net_feed(n) ==
    LET comp == n.networked_computers[n.i + 1]
        seen == [n EXCEPT !.starved = Append(@, comp.state = "WaitingForInput" /\ comp.input = <<>>),
                          !.done_seen = @ \/ comp.state = "Done"]
    IN  IF Starved(comp)
        THEN [seen EXCEPT !.networked_computers[n.i + 1] = Computer_input(comp, -1),
                          !.at = "run"]
        ELSE [seen EXCEPT !.idle = IF n.part = 2 THEN FALSE ELSE @,
                          !.at = "run"]

\* the end of a visit: the next instance, or the end of the pass
Net_advance(n) ==
    IF n.i + 1 < NumComputers
    THEN [n EXCEPT !.i = n.i + 1, !.at = "visit"]
    ELSE IF n.part = 1
    THEN [n EXCEPT !.i = 0, !.at = "visit", !.passes = n.passes + 1,
                   !.starved = <<>>, !.produced = <<>>]
    ELSE [n EXCEPT !.at = "nat"]

\* mutant: the drained output is routed without the incomplete-packet test
Net_dump_Unchecked(n) ==
    LET d       == dump_output(n.networked_computers[n.i + 1])
        drained == [n EXCEPT !.networked_computers[n.i + 1] = d.c,
                             !.output = d.output,
                             !.window = 0,
                             !.produced = Append(@, Len(d.output))]
    IN  IF Len(d.output) < 3
        THEN Net_advance(drained)
        ELSE [drained EXCEPT !.idle = IF n.part = 2 THEN FALSE ELSE @, !.at = "route"]

\* let output = comp.dump_output(), the incomplete-packet test and (part2) the idle flag
Net_dump(n) ==
    LET d       == dump_output(n.networked_computers[n.i + 1])
        drained == [n EXCEPT !.networked_computers[n.i + 1] = d.c,
                             !.output = d.output,
                             !.window = 0,
                             !.produced = Append(@, Len(d.output))]
    IN  IF d.output # <<>> /\ Len(d.output) % 3 # 0
        THEN Net_abort(drained, <<"Computer produced an incomplete packet", n.i, d.output>>)
        ELSE IF d.output = <<>>
        THEN Net_advance(drained)
        ELSE [drained EXCEPT !.idle = IF n.part = 2 THEN FALSE ELSE @, !.at = "route"]

\* networked_computers[address].input(x); networked_computers[address].input(y)
Net_deliver(n, address, x, y) ==
    IF address \notin 0..(NumComputers - 1)
    THEN Net_abort(n, IndexPanic(address, NumComputers))
    ELSE [n EXCEPT !.networked_computers[address + 1] =
                       Computer_input(Computer_input(@, x), y)]

\* the end of one turn of the routing loop: the next window, or the end of the visit
Net_window_done(n) ==
    IF n.at # "route"
    THEN n
    ELSE IF 3 * (n.window + 1) < Len(n.output)
    THEN [n EXCEPT !.window = n.window + 1]
    ELSE Net_advance(n)

\* mutant: a step of comp.run() leaves its memory in every instance, as if they shared it
Net_step_SharedMemory(n, checks) ==
    LET r == Computer_step(n.networked_computers[n.i + 1], checks)
        ran == [n EXCEPT !.networked_computers =
                             [a \in 1..NumComputers |->
                                 IF a = n.i + 1 THEN r.c ELSE [@[a] EXCEPT !.memory = r.c.memory]]]
    IN  IF r.panic # NoPanic
        THEN Net_abort(ran, r.panic)
        ELSE ran

\* mutant: the Y value is delivered before the X value
Net_route_YFirst(n) ==
    LET address == AsUsize(n.output[3 * n.window + 1])
        x       == n.output[3 * n.window + 2]
        y       == n.output[3 * n.window + 3]
    IN  IF address = 255
        THEN IF n.part = 1
             THEN [n EXCEPT !.at = "returned", !.result = Some(y)]
             ELSE Net_window_done([n EXCEPT !.nat_x = Some(x), !.nat_y = Some(y)])
        ELSE Net_window_done(Net_deliver(n, address, y, x))

\* mutant: the NAT keeps the first packet it received
Net_route_NatKeepsFirst(n) ==
    LET address == AsUsize(n.output[3 * n.window + 1])
        x       == n.output[3 * n.window + 2]
        y       == n.output[3 * n.window + 3]
    IN  IF address = 255
        THEN IF n.part = 1
             THEN [n EXCEPT !.at = "returned", !.result = Some(y)]
             ELSE IF n.nat_x = None
             THEN Net_window_done([n EXCEPT !.nat_x = Some(x), !.nat_y = Some(y)])
             ELSE Net_window_done(n)
        ELSE Net_window_done(Net_deliver(n, address, x, y))

\* one turn of `for window in output.chunks_exact(3)`
Net_route(n) ==
    LET address == AsUsize(n.output[3 * n.window + 1])
        x       == n.output[3 * n.window + 2]
        y       == n.output[3 * n.window + 3]
    IN  IF address = 255
        THEN IF n.part = 1
             THEN [n EXCEPT !.at = "returned", !.result = Some(y)]
             ELSE Net_window_done([n EXCEPT !.nat_x = Some(x), !.nat_y = Some(y)])
        ELSE Net_window_done(Net_deliver(n, address, x, y))

\* the next pass: idle = true and the first instance again
Net_next_pass(n) ==
    [n EXCEPT !.idle = TRUE, !.i = 0, !.at = "visit", !.passes = n.passes + 1,
              !.starved = <<>>, !.produced = <<>>]

\* mutant: the NAT's turn ends the driver on any second delivery
Net_nat_AnyRepeat(n) ==
    IF ~n.idle
    THEN Net_next_pass(n)
    ELSE IF n.last_delivered_y # None
    THEN [n EXCEPT !.at = "returned", !.result = n.nat_y]
    ELSE LET noted == [n EXCEPT !.last_delivered_y = n.nat_y]
         IN  IF n.nat_x = None
             THEN Net_abort(noted, <<"called Option::unwrap() on a None value">>)
             ELSE Net_next_pass(
                      [Net_deliver(noted, 0, n.nat_x[1], n.nat_y[1])
                          EXCEPT !.delivered = Append(n.delivered, <<n.nat_x[1], n.nat_y[1]>>)])

\* mutant: the NAT delivers at the end of every pass, idle or not, once it holds a packet
Net_nat_EveryPass(n) ==
    IF ~n.idle /\ n.nat_x = None
    THEN Net_next_pass(n)
    ELSE IF n.last_delivered_y # None /\ n.nat_y = n.last_delivered_y
    THEN [n EXCEPT !.at = "returned", !.result = n.nat_y]
    ELSE LET noted == [n EXCEPT !.last_delivered_y = n.nat_y]
         IN  IF n.nat_x = None
             THEN Net_abort(noted, <<"called Option::unwrap() on a None value">>)
             ELSE Net_next_pass(
                      [Net_deliver(noted, 0, n.nat_x[1], n.nat_y[1])
                          EXCEPT !.delivered = Append(n.delivered, <<n.nat_x[1], n.nat_y[1]>>)])

\* mutant: a NAT that holds no packet injects nothing and the driver goes on polling
Net_nat_SkipsEmpty(n) ==
    IF ~n.idle
    THEN Net_next_pass(n)
    ELSE IF n.last_delivered_y # None /\ n.nat_y = n.last_delivered_y
    THEN [n EXCEPT !.at = "returned", !.result = n.nat_y]
    ELSE LET noted == [n EXCEPT !.last_delivered_y = n.nat_y]
         IN  IF n.nat_x = None
             THEN Net_next_pass(noted)
             ELSE Net_next_pass(
                      [Net_deliver(noted, 0, n.nat_x[1], n.nat_y[1])
                          EXCEPT !.delivered = Append(n.delivered, <<n.nat_x[1], n.nat_y[1]>>)])

\* `if idle { ... }` at the end of a pass of part2, then the head of the next pass
Net_nat(n) ==
    IF ~n.idle
    THEN Net_next_pass(n)
    ELSE IF n.last_delivered_y # None /\ n.nat_y = n.last_delivered_y
    THEN [n EXCEPT !.at = "returned", !.result = n.nat_y]
    ELSE LET noted == [n EXCEPT !.last_delivered_y = n.nat_y]
         IN  IF n.nat_x = None
             THEN Net_abort(noted, <<"called Option::unwrap() on a None value">>)
             ELSE Net_next_pass(
                      [Net_deliver(noted, 0, n.nat_x[1], n.nat_y[1])
                          EXCEPT !.delivered = Append(n.delivered, <<n.nat_x[1], n.nat_y[1]>>)])

\* one turn of the loop of comp.run(), a panic of the instance being a panic of the driver
Net_step(n, checks) ==
    LET r == Computer_step(n.networked_computers[n.i + 1], checks)
        ran == [n EXCEPT !.networked_computers[n.i + 1] = r.c]
    IN  IF r.panic # NoPanic
        THEN Net_abort(ran, r.panic)
        ELSE ran

\* the programs the instances are booted from; each starts by reading its address
NetworkPrograms ==
    { \* reads for ever, sends nothing
      <<3, 20, 1105, 1, 0>>,
      \* reads its address and halts
      <<3, 20, 99>>,
      \* sends (address, 6) to 255, then reads for ever
      <<3, 20, 104, 255, 4, 20, 104, 6, 3, 21, 1105, 1, 8>>,
      \* sends (address, 6) to 255, then answers every packet (x, y) with (y, x) to 255
      <<3, 50, 104, 255, 4, 50, 104, 6, 3, 51, 1007, 51, 0, 52, 1005, 52, 8,
        3, 53, 104, 255, 4, 53, 4, 51, 1105, 1, 8>>,
      \* sends (7, address) to address + 1, then reads for ever
      <<3, 30, 1001, 30, 1, 31, 4, 31, 104, 7, 4, 30, 3, 32, 1105, 1, 12>>,
      \* sends (1, address) and (3, address) to 0, then reads for ever
      <<3, 30, 104, 0, 104, 1, 4, 30, 104, 0, 104, 3, 4, 30, 3, 31, 1105, 1, 14>>,
      \* outputs four values, then reads
      <<3, 30, 104, 0, 104, 1, 104, 2, 104, 0, 3, 31, 99>>,
      \* sends (1, 2) to 255, (address, 9) to 0 and (3, 4) to 255, then reads for ever
      <<3, 30, 104, 255, 104, 1, 104, 2, 104, 0, 4, 30, 104, 9,
        104, 255, 104, 3, 104, 4, 3, 31, 1105, 1, 20>>,
      \* sends (1, 2) to -1
      <<3, 30, 104, -1, 104, 1, 104, 2, 3, 31, 99>>,
      \* an unknown opcode after the address
      <<3, 30, 77>>,
      \* reads its address, reads once more and halts
      <<3, 20, 3, 21, 99>>,
      \* sends (address, 6) to 255, reads once more and halts
      <<3, 20, 104, 255, 4, 20, 104, 6, 3, 21, 99>>,
      \* sends (address, 6) to 255, reads four more values and halts
      <<3, 20, 104, 255, 4, 20, 104, 6, 3, 21, 3, 21, 3, 21, 3, 21, 99>> }

InitNetwork ==
    /\ loaded \in NetworkPrograms
    /\ overflow_checks \in BOOLEAN
    /\ \E part \in {1, 2} :
           net = [part               |-> part,
                  networked_computers |-> Boot(loaded),
                  nat_x              |-> None,
                  nat_y              |-> None,
                  last_delivered_y   |-> None,
                  idle               |-> TRUE,
                  i                  |-> 0,
                  at                 |-> "visit",
                  output             |-> <<>>,
                  window             |-> 0,
                  result             |-> None,
                  panic              |-> NoPanic,
                  passes             |-> 0,
                  delivered          |-> <<>>,
                  starved            |-> <<>>,
                  produced           |-> <<>>,
                  done_seen          |-> FALSE]
    /\ netPrev = net
    /\ computer = Computer_new(loaded)
    /\ panic = NoPanic
    /\ caller = "idle"
    /\ returned = None
    /\ prev = computer
    /\ lastOp = "new"
    /\ fed = <<>>
    /\ nread = 0
    /\ steps = 0
    /\ resume = None
    /\ cell_value = 0
    /\ opcode_modes = None
    /\ written = <<>>
    /\ got = None
    /\ Day2Idle
    /\ Day7Idle
    /\ IoIdle

\* the head of a visit, in the first MaxPasses passes
NetFeed ==
    /\ net.at = "visit"
    /\ net.passes < MaxPasses
    /\ net' = Net_feed(net)
    /\ netPrev' = net
    /\ UNCHANGED <<computer, overflow_checks, panic, caller, returned, prev, lastOp, fed,
                   nread, steps, loaded, resume, decodeVars, memoryVars, day2, day7,
                   io, day9>>

\* comp.run(): a turn of its loop while the instance is runnable
NetStep ==
    /\ net.at = "run"
    /\ is_runnable(net.networked_computers[net.i + 1])
    /\ net' = Net_step(net, overflow_checks)
    /\ netPrev' = net
    /\ UNCHANGED <<computer, overflow_checks, panic, caller, returned, prev, lastOp, fed,
                   nread, steps, loaded, resume, decodeVars, memoryVars, day2, day7,
                   io, day9>>

\* comp.run() returns (its value is not used) once the instance is not runnable
NetRan ==
    /\ net.at = "run"
    /\ ~is_runnable(net.networked_computers[net.i + 1])
    /\ net' = [net EXCEPT !.at = "dump"]
    /\ netPrev' = net
    /\ UNCHANGED <<computer, overflow_checks, panic, caller, returned, prev, lastOp, fed,
                   nread, steps, loaded, resume, decodeVars, memoryVars, day2, day7,
                   io, day9>>

NetDump ==
    /\ net.at = "dump"
    /\ net' = Net_dump(net)
    /\ netPrev' = net
    /\ UNCHANGED <<computer, overflow_checks, panic, caller, returned, prev, lastOp, fed,
                   nread, steps, loaded, resume, decodeVars, memoryVars, day2, day7,
                   io, day9>>

NetRoute ==
    /\ net.at = "route"
    /\ net' = Net_route(net)
    /\ netPrev' = net
    /\ UNCHANGED <<computer, overflow_checks, panic, caller, returned, prev, lastOp, fed,
                   nread, steps, loaded, resume, decodeVars, memoryVars, day2, day7,
                   io, day9>>

NetNat ==
    /\ net.at = "nat"
    /\ net' = Net_nat(net)
    /\ netPrev' = net
    /\ UNCHANGED <<computer, overflow_checks, panic, caller, returned, prev, lastOp, fed,
                   nread, steps, loaded, resume, decodeVars, memoryVars, day2, day7,
                   io, day9>>

NextNetwork ==
    \/ NetFeed
    \/ NetStep
    \/ NetRan
    \/ NetDump
    \/ NetRoute
    \/ NetNat

SpecNetwork == InitNetwork /\ [][NextNetwork]_vars

-----------------------------------------------------------------------------
(* The callback engine of day7 (day7/src/main.rs): run_program over a
   Vec<i32>, reading from a ListProgramInput and writing to a
   LastValueProgramOutput, one turn of its while loop per step.  Its
   OpcodeModes::parse and parameter_mode are those of the Computer above,
   on i32.  The engine's record: program, pc, input (values and index),
   output (the last value output), status ("running", "done", "aborted")
   and panic; and, as history, reads (every value read() returned) and
   before (program, pc and input index before the last turn). *)

\* mutant: a read past the end of the list returns 0 and leaves the index alone
ListProgramInput_read_ZeroWhenExhausted(input) ==
    IF input.index \notin 0..(Len(input.values) - 1)
    THEN [kind |-> "Value", v |-> 0, input |-> input]
    ELSE [kind  |-> "Value",
          v     |-> input.values[input.index + 1],
          input |-> [input EXCEPT !.index = input.index + 1]]

\* ListProgramInput::read: self.values[self.index], then self.index += 1
ListProgramInput_read(input) ==
    IF input.index \notin 0..(Len(input.values) - 1)
    THEN [kind |-> "Panic", panic |-> IndexPanic(input.index, Len(input.values))]
    ELSE [kind  |-> "Value",
          v     |-> input.values[input.index + 1],
          input |-> [input EXCEPT !.index = input.index + 1]]

\* program[index], or the panic of the index
Day7_cell(program, index) ==
    IF index \notin 0..(Len(program) - 1)
    THEN [kind |-> "Panic", panic |-> IndexPanic(index, Len(program))]
    ELSE [kind |-> "Value", v |-> program[index + 1]]

\* OpcodeModes::parameter: Position(program[pc + k + 1] as usize), Immediate(program[pc + k + 1]),
\* or the panic of the mode digit or of the index
Day7_parameter(om, program, pc, k) ==
    LET mode == parameter_mode(om, k)
        cell == Day7_cell(program, pc + k + 1)
    IN  IF mode \notin {U32(0), U32(1)}
        THEN [kind |-> "Panic", panic |-> <<"Invalid parameter mode", mode>>]
        ELSE IF cell.kind = "Panic"
        THEN cell
        ELSE IF mode = U32(0)
        THEN [kind |-> "Position", index |-> AsUsize(cell.v)]
        ELSE [kind |-> "Immediate", v |-> cell.v]

\* value(parameter, program)
Day7_value(parameter, program) ==
    IF parameter.kind = "Position"
    THEN Day7_cell(program, parameter.index)
    ELSE [kind |-> "Value", v |-> parameter.v]

\* program[out] = result, and the pc the instruction returns
Day7_store(d, out, result, pc) ==
    IF out \notin 0..(Len(d.program) - 1)
    THEN [d EXCEPT !.status = "aborted", !.panic = IndexPanic(out, Len(d.program))]
    ELSE [d EXCEPT !.program[out + 1] = result, !.pc = pc]

\* one turn of run_program's loop: parse_instruction at pc, then run_instruction
\* (the values explored stay far inside i32, so + and * do not overflow)
Day7_turn(d) ==
    LET program == d.program
        pc      == d.pc
        head    == Day7_cell(program, pc)
        om      == OpcodeModes_parse(head.v)
        abort(diagnostic) == [d EXCEPT !.status = "aborted", !.panic = diagnostic]
        a       == Day7_parameter(om, program, pc, 0)
        b       == Day7_parameter(om, program, pc, 1)
        av      == Day7_value(a, program)
        bv      == Day7_value(b, program)
        third   == Day7_cell(program, pc + 3)
        to      == Day7_cell(program, pc + 1)
        read    == ListProgramInput_read(d.input)
    IN  IF head.kind = "Panic" THEN abort(head.panic)
        ELSE IF om.opcode = U32(99) THEN [d EXCEPT !.status = "done"]
        ELSE IF om.opcode \in {U32(1), U32(2), U32(7), U32(8)}
        THEN IF a.kind = "Panic" THEN abort(a.panic)
             ELSE IF b.kind = "Panic" THEN abort(b.panic)
             ELSE IF third.kind = "Panic" THEN abort(third.panic)
             ELSE IF av.kind = "Panic" THEN abort(av.panic)
             ELSE IF bv.kind = "Panic" THEN abort(bv.panic)
             ELSE Day7_store(d, AsUsize(third.v),
                             CASE om.opcode = U32(1) -> av.v + bv.v
                               [] om.opcode = U32(2) -> av.v * bv.v
                               [] om.opcode = U32(7) -> IF av.v < bv.v THEN 1 ELSE 0
                               [] om.opcode = U32(8) -> IF av.v = bv.v THEN 1 ELSE 0,
                             pc + 4)
        ELSE IF om.opcode = U32(3)
        THEN IF to.kind = "Panic" THEN abort(to.panic)
             ELSE IF read.kind = "Panic" THEN abort(read.panic)
             ELSE Day7_store([d EXCEPT !.input = read.input, !.reads = Append(@, read.v)],
                             AsUsize(to.v), read.v, pc + 2)
        ELSE IF om.opcode = U32(4)
        THEN IF a.kind = "Panic" THEN abort(a.panic)
             ELSE IF av.kind = "Panic" THEN abort(av.panic)
             ELSE [d EXCEPT !.output = av.v, !.pc = pc + 2]
        ELSE IF om.opcode \in {U32(5), U32(6)}
        THEN IF a.kind = "Panic" THEN abort(a.panic)
             ELSE IF b.kind = "Panic" THEN abort(b.panic)
             ELSE IF av.kind = "Panic" THEN abort(av.panic)
             ELSE IF (av.v # 0) # (om.opcode = U32(5))
             THEN [d EXCEPT !.pc = pc + 3]
             ELSE IF bv.kind = "Panic" THEN abort(bv.panic)
             ELSE [d EXCEPT !.pc = AsUsize(bv.v)]
        ELSE abort(<<"Unknown opcode", om.opcode, "at pc", pc>>)

\* programs that read: once, three times, until the list runs out, and the amplifier
\* program of chain_output's first example; and programs that break off
Day7Programs ==
    { <<3, 3, 99, 0>>,
      <<3, 7, 3, 8, 3, 9, 99, 0, 0, 0>>,
      <<3, 7, 4, 7, 1105, 1, 0, 0>>,
      <<3, 15, 3, 16, 1002, 16, 10, 16, 1, 16, 15, 15, 4, 15, 99, 0, 0>>,
      <<3, 9, 8, 9, 10, 9, 4, 9, 99, -1, 8>>,
      <<3, 3, 1107, -1, 8, 3, 4, 3, 99>>,
      <<3, 12, 6, 12, 15, 1, 13, 14, 13, 4, 13, 99, -1, 0, 1, 9>>,
      <<3, 20, 99>>,
      <<3, -1, 99>>,
      <<3>>,
      <<204, 1, 99>>,
      <<13, 0, 99>>,
      <<1105, 1, 9>> }

\* the lists ListProgramInput::new is given
Day7Inputs == { <<>>, <<8>>, <<4, 0>>, <<7, 8, 9>> }

InitDay7 ==
    /\ loaded \in Day7Programs
    /\ \E values \in Day7Inputs :
           day7 = [program |-> loaded,
                   pc      |-> 0,
                   input   |-> [values |-> values, index |-> 0],
                   output  |-> 0,
                   status  |-> "running",
                   panic   |-> NoPanic,
                   reads   |-> <<>>,
                   before  |-> [program |-> loaded, pc |-> 0, index |-> 0, turns |-> 0]]
    /\ overflow_checks \in BOOLEAN
    /\ computer = Computer_new(loaded)
    /\ panic = NoPanic
    /\ caller = "idle"
    /\ returned = None
    /\ prev = computer
    /\ lastOp = "new"
    /\ fed = <<>>
    /\ nread = 0
    /\ steps = 0
    /\ resume = None
    /\ cell_value = 0
    /\ opcode_modes = None
    /\ written = <<>>
    /\ got = None
    /\ Day2Idle
    /\ NetworkIdle
    /\ IoIdle

\* one turn of the loop, for at most MaxDay7Turns turns
Day7Step ==
    /\ day7.status = "running"
    /\ day7.before.turns < MaxDay7Turns
    /\ day7' = [Day7_turn(day7) EXCEPT !.before = [program |-> day7.program,
                                                   pc      |-> day7.pc,
                                                   index   |-> day7.input.index,
                                                   turns   |-> day7.before.turns + 1]]
    /\ UNCHANGED <<computer, overflow_checks, panic, caller, returned, prev, lastOp, fed,
                   nread, steps, loaded, resume, decodeVars, memoryVars, day2, net, netPrev,
                   io, day9>>

NextDay7 == Day7Step

SpecDay7 == InitDay7 /\ [][NextDay7]_vars

-----------------------------------------------------------------------------
(* chain_output (day7/src/main.rs): a fold over the phase settings, each
   turn of which is one amplifier_output: run_program on a clone of the
   program with a ListProgramInput of [phase_setting, input] and a
   LastValueProgramOutput.  The record is the engine's, plus
   phase_settings, k (amplifiers finished), acc (the fold's accumulator),
   at ("fold", "amplifier", "returned"), result and, as history, ran (for
   each finished amplifier: its phase setting, its second input, its
   output and the values it read). *)

\* mutant: the amplifier runs on the memory the previous amplifier left
amplifier_output_KeepsMemory(d, program, phase_setting, input) ==
    [d EXCEPT !.pc     = 0,
              !.input  = [values |-> <<phase_setting, input>>, index |-> 0],
              !.output = 0,
              !.status = "running",
              !.reads  = <<>>,
              !.before = [program |-> d.program, pc |-> 0, index |-> 0, turns |-> 0],
              !.at     = "amplifier"]

\* amplifier_output up to the head of run_program's loop: the input list, the
\* output that remembers 0, the clone of the program and pc = 0
amplifier_output(d, program, phase_setting, input) ==
    [d EXCEPT !.program = program,
              !.pc      = 0,
              !.input   = [values |-> <<phase_setting, input>>, index |-> 0],
              !.output  = 0,
              !.status  = "running",
              !.reads   = <<>>,
              !.before  = [program |-> program, pc |-> 0, index |-> 0, turns |-> 0],
              !.at      = "amplifier"]

\* the three programs of test_chain_output, and programs that output
\* nothing, read once, or count what they are given
ChainPrograms ==
    { <<3, 15, 3, 16, 1002, 16, 10, 16, 1, 16, 15, 15, 4, 15, 99, 0, 0>>,
      <<3, 23, 3, 24, 1002, 24, 10, 24, 1002, 23, -1, 23, 101, 5, 23, 23,
        1, 24, 23, 23, 4, 23, 99, 0, 0>>,
      <<3, 31, 3, 32, 1002, 32, 10, 32, 1001, 31, -2, 31, 1007, 31, 0, 33,
        1002, 33, 7, 33, 1, 33, 31, 31, 1, 32, 31, 31, 4, 31, 99, 0, 0, 0>>,
      <<3, 5, 3, 6, 99, 0, 0>>,
      <<3, 9, 1001, 9, 1, 9, 4, 9, 99, 0>>,
      <<3, 11, 3, 12, 1, 10, 12, 10, 4, 10, 99, 1, 0>>,
      <<3, 7, 3, 7, 3, 7, 99, 0>> }

\* the phase settings of test_chain_output, and shorter lists
PhaseSettings ==
    { <<4, 3, 2, 1, 0>>, <<0, 1, 2, 3, 4>>, <<1, 0, 4, 3, 2>>,
      <<>>, <<3>>, <<2, 2>>, <<0, 4, 1>> }

InitChain ==
    /\ loaded \in ChainPrograms
    /\ \E phase_settings \in PhaseSettings :
           day7 = [program        |-> loaded,
                   pc             |-> 0,
                   input          |-> [values |-> <<>>, index |-> 0],
                   output         |-> 0,
                   status         |-> "idle",
                   panic          |-> NoPanic,
                   reads          |-> <<>>,
                   before         |-> [program |-> loaded, pc |-> 0, index |-> 0, turns |-> 0],
                   phase_settings |-> phase_settings,
                   k              |-> 0,
                   acc            |-> 0,
                   at             |-> "fold",
                   result         |-> None,
                   ran            |-> <<>>]
    /\ overflow_checks \in BOOLEAN
    /\ computer = Computer_new(loaded)
    /\ panic = NoPanic
    /\ caller = "idle"
    /\ returned = None
    /\ prev = computer
    /\ lastOp = "new"
    /\ fed = <<>>
    /\ nread = 0
    /\ steps = 0
    /\ resume = None
    /\ cell_value = 0
    /\ opcode_modes = None
    /\ written = <<>>
    /\ got = None
    /\ Day2Idle
    /\ NetworkIdle
    /\ IoIdle

\* a turn of the fold: amplifier_output(program, *phase_setting, input), or
\* the fold's value once the phase settings are used up
ChainFold ==
    /\ day7.at = "fold"
    /\ day7' = IF day7.k < Len(day7.phase_settings)
               THEN amplifier_output(day7, loaded, day7.phase_settings[day7.k + 1], day7.acc)
               ELSE [day7 EXCEPT !.at = "returned", !.result = Some(day7.acc)]
    /\ UNCHANGED <<computer, overflow_checks, panic, caller, returned, prev, lastOp, fed,
                   nread, steps, loaded, resume, decodeVars, memoryVars, day2, net, netPrev,
                   io, day9>>

\* run_program returned: amplifier_output's value is program_output.value
ChainAmplified ==
    /\ day7.at = "amplifier"
    /\ day7.status = "done"
    /\ day7' = [day7 EXCEPT !.acc    = day7.output,
                            !.k      = day7.k + 1,
                            !.status = "idle",
                            !.at     = "fold",
                            !.ran    = Append(@, <<day7.phase_settings[day7.k + 1],
                                                   day7.acc, day7.output, day7.reads>>)]
    /\ UNCHANGED <<computer, overflow_checks, panic, caller, returned, prev, lastOp, fed,
                   nread, steps, loaded, resume, decodeVars, memoryVars, day2, net, netPrev,
                   io, day9>>

NextChain ==
    \/ ChainFold
    \/ Day7Step
    \/ ChainAmplified

SpecChain == InitChain /\ [][NextChain]_vars

-----------------------------------------------------------------------------
(* The robot of day11 (day11/src/main.rs): the ProgramIO strategy the
   engine calls for every Input (input()) and Output (output(value))
   instruction.  Explored under every sequence of calls, which covers what
   any program can make of it.  The record: position, direction, panels
   (the HashMap, as a function on the positions inserted), next_input,
   status and panic; and, as history, calls and outputs (calls made,
   output() calls completed), last (the last call: "new", "input",
   "output"), value (the argument of the last output()), read (what the
   last input() returned), painted (every position and colour paint() was
   called with, in call order) and before (the robot before the last
   call). *)

\* RobotDirection::turn
RobotDirection_turn(self, direction) ==
    CASE self = "Up"    /\ direction = "Left"  -> "Left"
      [] self = "Up"    /\ direction = "Right" -> "Right"
      [] self = "Down"  /\ direction = "Left"  -> "Right"
      [] self = "Down"  /\ direction = "Right" -> "Left"
      [] self = "Left"  /\ direction = "Left"  -> "Down"
      [] self = "Left"  /\ direction = "Right" -> "Up"
      [] self = "Right" /\ direction = "Left"  -> "Up"
      [] self = "Right" /\ direction = "Right" -> "Down"

\* Position::forward
Position_forward(self, direction) ==
    CASE direction = "Up"    -> [x |-> self.x, y |-> self.y - 1]
      [] direction = "Down"  -> [x |-> self.x, y |-> self.y + 1]
      [] direction = "Left"  -> [x |-> self.x - 1, y |-> self.y]
      [] direction = "Right" -> [x |-> self.x + 1, y |-> self.y]

RobotState_new ==
    [position   |-> [x |-> 0, y |-> 0],
     direction  |-> "Up",
     panels     |-> <<>>,
     next_input |-> "Paint"]

\* self.panels.insert(self.position.clone(), color)
RobotState_paint(r, color) ==
    [r EXCEPT !.panels = [p \in (DOMAIN r.panels) \cup {r.position} |->
                             IF p = r.position THEN color ELSE r.panels[p]]]

RobotState_turn(r, direction) ==
    LET turned == RobotDirection_turn(r.direction, direction)
    IN  [r EXCEPT !.direction = turned,
                  !.position  = Position_forward(r.position, turned)]

\* self.panels.get(position).unwrap_or(&PanelColor::Black)
RobotState_color(r, position) ==
    IF position \in DOMAIN r.panels THEN r.panels[position] ELSE "Black"

\* input(): self.color(&self.position).value()
RobotState_input(r) == IF RobotState_color(r, r.position) = "Black" THEN 0 ELSE 1

\* mutant: after its first turn the robot takes every output value as a turn
RobotState_output_KeepsTurning(r, value) ==
    IF value \notin {0, 1}
    THEN [r |-> r,
          panic |-> <<IF r.next_input = "Paint" THEN "Invalid panel color"
                                                ELSE "Invalid turn direction", value>>]
    ELSE IF r.next_input = "Paint"
    THEN [r |-> [RobotState_paint(r, IF value = 0 THEN "Black" ELSE "White")
                    EXCEPT !.next_input = "Turn"],
          panic |-> NoPanic]
    ELSE [r |-> RobotState_turn(r, IF value = 0 THEN "Left" ELSE "Right"),
          panic |-> NoPanic]

\* output(value), with PanelColor::from and TurnDirection::from
RobotState_output(r, value) ==
    IF value \notin {0, 1}
    THEN [r |-> r,
          panic |-> <<IF r.next_input = "Paint" THEN "Invalid panel color"
                                                ELSE "Invalid turn direction", value>>]
    ELSE IF r.next_input = "Paint"
    THEN [r |-> [RobotState_paint(r, IF value = 0 THEN "Black" ELSE "White")
                    EXCEPT !.next_input = "Turn"],
          panic |-> NoPanic]
    ELSE [r |-> [RobotState_turn(r, IF value = 0 THEN "Left" ELSE "Right")
                    EXCEPT !.next_input = "Paint"],
          panic |-> NoPanic]

\* the values a program may output: the two a colour or a turn is coded by, and others
OutputValues == {0, 1, 2, -1}

\* part 1 starts from RobotState::new(), part 2 paints the first panel white before the run
InitRobot ==
    /\ \E robot \in {RobotState_new, RobotState_paint(RobotState_new, "White")} :
           io = [robot   |-> robot,
                 status  |-> "running",
                 panic   |-> NoPanic,
                 calls   |-> 0,
                 outputs |-> 0,
                 last    |-> "new",
                 value   |-> 0,
                 read    |-> 0,
                 painted |-> IF robot.panels = <<>> THEN <<>> ELSE <<(<<robot.position, 1>>)>>,
                 before  |-> robot]
    /\ loaded = <<>>
    /\ overflow_checks \in BOOLEAN
    /\ computer = Computer_new(loaded)
    /\ panic = NoPanic
    /\ caller = "idle"
    /\ returned = None
    /\ prev = computer
    /\ lastOp = "new"
    /\ fed = <<>>
    /\ nread = 0
    /\ steps = 0
    /\ resume = None
    /\ cell_value = 0
    /\ opcode_modes = None
    /\ written = <<>>
    /\ got = None
    /\ Day2Idle
    /\ NetworkIdle
    /\ Day7Idle
    /\ day9 = None

\* the engine executes an Input instruction: io.input()
RobotInput ==
    /\ io.status = "running"
    /\ io.calls < MaxCalls
    /\ io' = [io EXCEPT !.calls  = io.calls + 1,
                        !.last   = "input",
                        !.read   = RobotState_input(io.robot),
                        !.before = io.robot]
    /\ UNCHANGED <<computer, overflow_checks, panic, caller, returned, prev, lastOp, fed,
                   nread, steps, loaded, resume, decodeVars, memoryVars, day2, net, netPrev,
                   day7, day9>>

\* the engine executes an Output instruction: io.output(value)
RobotOutput(value) ==
    /\ io.status = "running"
    /\ io.calls < MaxCalls
    /\ LET r == RobotState_output(io.robot, value)
       IN  io' = [io EXCEPT !.robot   = r.r,
                            !.status  = IF r.panic = NoPanic THEN "running" ELSE "aborted",
                            !.panic   = r.panic,
                            !.calls   = io.calls + 1,
                            !.outputs = IF r.panic = NoPanic THEN io.outputs + 1 ELSE io.outputs,
                            !.last    = "output",
                            !.value   = value,
                            !.painted = IF r.panic = NoPanic /\ io.robot.next_input = "Paint"
                                        THEN Append(@, <<io.robot.position, value>>)
                                        ELSE @,
                            !.before  = io.robot]
    /\ UNCHANGED <<computer, overflow_checks, panic, caller, returned, prev, lastOp, fed,
                   nread, steps, loaded, resume, decodeVars, memoryVars, day2, net, netPrev,
                   day7, day9>>

NextRobot ==
    \/ RobotInput
    \/ \E value \in OutputValues : RobotOutput(value)

SpecRobot == InitRobot /\ [][NextRobot]_vars

-----------------------------------------------------------------------------
(* The game of day13 (day13/src/main.rs): the output side of its ProgramIO
   strategy, under every sequence of output values.  The record: game
   (input: next_state, x, y; tiles, the HashMap as a function on the
   positions inserted; score), status and panic; and, as history, calls,
   values (the argument of every completed output(), in call order) and
   before (the game before the last call).  render() draws and changes
   nothing. *)

\* Tile::parse, "Invalid" standing for its panic
Tile_parse(value) ==
    CASE value = 0 -> "Empty"
      [] value = 1 -> "Wall"
      [] value = 2 -> "Block"
      [] value = 3 -> "Paddle"
      [] value = 4 -> "Ball"
      [] OTHER     -> "Invalid"

\* mutant: every third value with x = -1 is a score, whatever y is
Game_output_ScoreOnAnyRow(g, value) ==
    CASE g.input.next_state = "X" ->
             [g |-> [g EXCEPT !.input.x = Some(value), !.input.next_state = "Y"],
              panic |-> NoPanic]
      [] g.input.next_state = "Y" ->
             [g |-> [g EXCEPT !.input.y = Some(value), !.input.next_state = "TileId"],
              panic |-> NoPanic]
      [] g.input.next_state = "TileId" ->
             LET position == [x |-> g.input.x[1], y |-> g.input.y[1]]
                 tile     == Tile_parse(value)
                 reset(h) == [h EXCEPT !.input = [next_state |-> "X", x |-> None, y |-> None]]
             IN  IF position.x = -1
                 THEN [g |-> reset([g EXCEPT !.score = value]), panic |-> NoPanic]
                 ELSE IF tile = "Invalid"
                 THEN [g |-> g, panic |-> <<"Invalid tile", value>>]
                 ELSE [g |-> reset([g EXCEPT !.tiles =
                                       [p \in (DOMAIN g.tiles) \cup {position} |->
                                           IF p = position THEN tile ELSE g.tiles[p]]]),
                       panic |-> NoPanic]

\* output(value)
Game_output(g, value) ==
    CASE g.input.next_state = "X" ->
             [g |-> [g EXCEPT !.input.x = Some(value), !.input.next_state = "Y"],
              panic |-> NoPanic]
      [] g.input.next_state = "Y" ->
             [g |-> [g EXCEPT !.input.y = Some(value), !.input.next_state = "TileId"],
              panic |-> NoPanic]
      [] g.input.next_state = "TileId" ->
             LET position == [x |-> g.input.x[1], y |-> g.input.y[1]]
                 tile     == Tile_parse(value)
                 reset(h) == [h EXCEPT !.input = [next_state |-> "X", x |-> None, y |-> None]]
             IN  IF position = [x |-> -1, y |-> 0]
                 THEN [g |-> reset([g EXCEPT !.score = value]), panic |-> NoPanic]
                 ELSE IF tile = "Invalid"
                 THEN [g |-> g, panic |-> <<"Invalid tile", value>>]
                 ELSE [g |-> reset([g EXCEPT !.tiles =
                                       [p \in (DOMAIN g.tiles) \cup {position} |->
                                           IF p = position THEN tile ELSE g.tiles[p]]]),
                       panic |-> NoPanic]

\* Game::new
InitGame ==
    /\ io = [game   |-> [input |-> [next_state |-> "X", x |-> None, y |-> None],
                         tiles |-> <<>>,
                         score |-> 0],
             status |-> "running",
             panic  |-> NoPanic,
             calls  |-> 0,
             last   |-> "new",
             values |-> <<>>,
             before |-> [input |-> [next_state |-> "X", x |-> None, y |-> None],
                         tiles |-> <<>>,
                         score |-> 0]]
    /\ loaded = <<>>
    /\ overflow_checks \in BOOLEAN
    /\ computer = Computer_new(loaded)
    /\ panic = NoPanic
    /\ caller = "idle"
    /\ returned = None
    /\ prev = computer
    /\ lastOp = "new"
    /\ fed = <<>>
    /\ nread = 0
    /\ steps = 0
    /\ resume = None
    /\ cell_value = 0
    /\ opcode_modes = None
    /\ written = <<>>
    /\ got = None
    /\ Day2Idle
    /\ NetworkIdle
    /\ Day7Idle
    /\ day9 = None

\* the engine executes an Output instruction: io.output(value)
GameOutput(value) ==
    /\ io.status = "running"
    /\ io.calls < MaxCalls
    /\ LET r == Game_output(io.game, value)
       IN  io' = [io EXCEPT !.game   = r.g,
                            !.status = IF r.panic = NoPanic THEN "running" ELSE "aborted",
                            !.panic  = r.panic,
                            !.calls  = io.calls + 1,
                            !.last   = "output",
                            !.values = IF r.panic = NoPanic THEN Append(@, value) ELSE @,
                            !.before = io.game]
    /\ UNCHANGED <<computer, overflow_checks, panic, caller, returned, prev, lastOp, fed,
                   nread, steps, loaded, resume, decodeVars, memoryVars, day2, net, netPrev,
                   day7, day9>>

\* coordinates and tile ids, the score's x = -1 and a value that is not a tile id
NextGame == \E value \in {-1, 0, 1, 3, 5} : GameOutput(value)

SpecGame == InitGame /\ [][NextGame]_vars

-----------------------------------------------------------------------------
(* The decoder on its own: OpcodeModes::parse applied to one cell value. *)

DecodeCells == (-MaxCell)..MaxCell

InitDecode ==
    /\ cell_value \in DecodeCells
    /\ opcode_modes = None
    /\ loaded = <<cell_value>>
    /\ computer = Computer_new(loaded)
    /\ overflow_checks = TRUE
    /\ panic = NoPanic
    /\ caller = "idle"
    /\ returned = None
    /\ prev = computer
    /\ lastOp = "new"
    /\ fed = <<>>
    /\ nread = 0
    /\ steps = 0
    /\ resume = None
    /\ written = <<>>
    /\ got = None
    /\ SideIdle

Decode ==
    /\ opcode_modes = None
    /\ opcode_modes' = Some(OpcodeModes_parse(cell_value))
    /\ UNCHANGED <<computer, overflow_checks, panic, caller, returned, prev, lastOp, fed,
                   nread, steps, loaded, resume, cell_value, memoryVars, sideVars>>

NextDecode == Decode

SpecDecode == InitDecode /\ [][NextDecode]_vars

-----------------------------------------------------------------------------
(* Memory on its own: a Memory built for a program, then any sequence of
   set(addr, value) and get(addr). *)

\* the programs a Memory is built for: none, and the one of test_memory
MemoryPrograms == { <<>>, <<1, 2, 3>> }

\* addresses inside the program, just past it, far past it and the last usize
MemoryAddrs == {0, 3, 10, -1}

MemoryValues == {0, 5}

InitMemory ==
    /\ loaded \in MemoryPrograms
    /\ computer = Computer_new(loaded)
    /\ written = <<>>
    /\ got = None
    /\ SideIdle
    /\ overflow_checks = TRUE
    /\ panic = NoPanic
    /\ caller = "idle"
    /\ returned = None
    /\ prev = computer
    /\ lastOp = "new"
    /\ fed = <<>>
    /\ nread = 0
    /\ steps = 0
    /\ resume = None
    /\ cell_value = 0
    /\ opcode_modes = None

MemorySet(addr, value) ==
    /\ Len(written) < MaxWrites
    /\ computer' = [computer EXCEPT !.memory = Memory_set(computer.memory, addr, value)]
    /\ written' = Append(written, <<addr, value>>)
    /\ got' = None
    /\ prev' = computer
    /\ lastOp' = "set"
    /\ UNCHANGED <<overflow_checks, panic, caller, returned, fed, nread, steps, loaded,
                   resume, decodeVars, sideVars>>

MemoryGet(addr) ==
    /\ got' = <<addr, Memory_get(computer.memory, addr)>>
    /\ UNCHANGED <<computer, overflow_checks, panic, caller, returned, prev, lastOp, fed,
                   nread, steps, loaded, resume, decodeVars, written, sideVars>>

NextMemory ==
    \/ \E addr \in MemoryAddrs, value \in MemoryValues : MemorySet(addr, value)
    \/ \E addr \in MemoryAddrs : MemoryGet(addr)

SpecMemory == InitMemory /\ [][NextMemory]_vars


-----------------------------------------------------------------------------
(* 64-bit values.  Where a value passes the 32 bits of a TLC integer, an i64
   is its eight bytes, least significant first, in two's complement, and
   `+` and `*` are the arithmetic of the machine on those bytes: exact when
   the result fits 64 bits; otherwise the build decides (overflow checks
   abort, without them the result wraps). *)

RECURSIVE Pow256(_)
Pow256(k) == IF k = 0 THEN 1 ELSE 256 * Pow256(k - 1)

\* the i64 with the value of the TLC integer n
I64(n) ==
    [i \in 1..8 |->
        IF i <= 4
        THEN IF n >= 0 THEN (n \div Pow256(i - 1)) % 256
                       ELSE 255 - (((-(n + 1)) \div Pow256(i - 1)) % 256)
        ELSE IF n >= 0 THEN 0 ELSE 255]

IsNegative(x) == x[Len(x)] >= 128

\* x holds a value of the 32-bit range
Fits32(x) ==
    /\ \A i \in 5..8 : x[i] = IF IsNegative(x) THEN 255 ELSE 0
    /\ (x[4] >= 128) = IsNegative(x)

\* the TLC integer with the value of x, for an x of the 32-bit range
AsInt(x) ==
    IF IsNegative(x)
    THEN (-1) - ((255 - x[1]) + 256 * (255 - x[2]) + 65536 * (255 - x[3])
                 + 16777216 * (255 - x[4]))
    ELSE x[1] + 256 * x[2] + 65536 * x[3] + 16777216 * x[4]

\* x widened to 128 bits
SignExtend(x) == [i \in 1..16 |-> IF i <= 8 THEN x[i] ELSE IF IsNegative(x) THEN 255 ELSE 0]

\* x[1] * y[k] + x[2] * y[k - 1] + ... + x[i] * y[k + 1 - i]
RECURSIVE ColumnSum(_, _, _, _)
ColumnSum(x, y, k, i) ==
    IF i = 0 THEN 0 ELSE x[i] * y[k + 1 - i] + ColumnSum(x, y, k, i - 1)

\* column k of the long multiplication, with the carry of the columns below
RECURSIVE MulTotal(_, _, _)
MulTotal(x, y, k) ==
    ColumnSum(x, y, k, k) + (IF k = 1 THEN 0 ELSE MulTotal(x, y, k - 1) \div 256)

\* the product of two i64 as a 128-bit value
Product128(x, y) ==
    LET a == SignExtend(x)
        b == SignExtend(y)
    IN  [k \in 1..16 |-> MulTotal(a, b, k) % 256]

\* mutant: values are 32 bits wide, as in the first engine (i32)
I64_mul_As32(x, y, checks) ==
    LET product == Product128(x, y)
    IN  [v |-> [k \in 1..8 |-> IF k <= 4 THEN product[k]
                               ELSE IF product[4] >= 128 THEN 255 ELSE 0],
         panic |-> NoPanic]

\* a * b on i64
I64_mul(x, y, checks) ==
    LET product  == Product128(x, y)
        low      == [k \in 1..8 |-> product[k]]
        overflow == \E k \in 9..16 : product[k] # IF IsNegative(low) THEN 255 ELSE 0
    IN  IF overflow /\ checks
        THEN [v |-> low, panic |-> <<"attempt to multiply with overflow">>]
        ELSE [v |-> low, panic |-> NoPanic]

RECURSIVE AddTotal(_, _, _)
AddTotal(x, y, k) ==
    x[k] + y[k] + (IF k = 1 THEN 0 ELSE AddTotal(x, y, k - 1) \div 256)

\* a + b on i64
I64_add(x, y, checks) ==
    LET sum      == [k \in 1..8 |-> AddTotal(x, y, k) % 256]
        overflow == IsNegative(x) = IsNegative(y) /\ IsNegative(sum) # IsNegative(x)
    IN  IF overflow /\ checks
        THEN [v |-> sum, panic |-> OverflowPanic]
        ELSE [v |-> sum, panic |-> NoPanic]

-----------------------------------------------------------------------------
(* The Computer on 64-bit cells: every cell, queued value and operand is an
   i64 in bytes; pc, relative_base and addresses stay small.  The
   instructions are those of the examples of day9/src/main.rs: Add,
   Multiply, Output, Halt. *)

Wide_get(memory, addr) == IF addr \in DOMAIN memory THEN memory[addr] ELSE I64(0)

Wide_parameter(om, c, p) ==
    LET mode == parameter_mode(om, p)
        cell == Wide_get(c.memory, c.pc + p + 1)
    IN  CASE mode = U32(0) -> [kind |-> "Position", v |-> AsUsize(AsInt(cell))]
          [] mode = U32(1) -> [kind |-> "Immediate", v |-> cell]
          [] mode = U32(2) -> [kind |-> "Relative", v |-> AsUsize(AsInt(cell) + c.relative_base)]
          [] OTHER -> [kind |-> "Panic", panic |-> <<"Invalid parameter mode", mode>>]

Wide_index_parameter(om, c, p) ==
    LET mode == parameter_mode(om, p)
        cell == Wide_get(c.memory, c.pc + p + 1)
    IN  CASE mode = U32(0) \/ mode = U32(1) -> [kind |-> "Index", v |-> AsUsize(AsInt(cell))]
          [] mode = U32(2) -> [kind |-> "Index", v |-> AsUsize(AsInt(cell) + c.relative_base)]
          [] OTHER -> [kind |-> "Panic", panic |-> <<"Invalid parameter index for mode", mode>>]

Wide_value(param, memory) ==
    CASE param.kind = "Position"  -> Wide_get(memory, param.v)
      [] param.kind = "Immediate" -> param.v
      [] param.kind = "Relative"  -> Wide_get(memory, param.v)

\* Add and Multiply: memory.set(out, a.value op b.value); pc + 4
Wide_arithmetic(c, result, out) ==
    IF result.panic # NoPanic
    THEN [c |-> c, panic |-> result.panic]
    ELSE [c |-> [c EXCEPT !.memory = Memory_set(c.memory, out, result.v), !.pc = c.pc + 4],
          panic |-> NoPanic]

\* self.state = Instruction::parse(self).run(self), on 64-bit cells
Wide_step(c, checks) ==
    LET om  == OpcodeModes_parse(AsInt(Wide_get(c.memory, c.pc)))
        a   == Wide_parameter(om, c, 0)
        b   == Wide_parameter(om, c, 1)
        out == Wide_index_parameter(om, c, 2)
    IN  CASE om.opcode = U32(1) ->
                 IF a.kind = "Panic" \/ b.kind = "Panic" \/ out.kind = "Panic"
                 THEN [c |-> c, panic |-> Decoded(<<a, b, out>>, [op |-> "Add"]).panic]
                 ELSE Wide_arithmetic(c, I64_add(Wide_value(a, c.memory),
                                                 Wide_value(b, c.memory), checks), out.v)
          [] om.opcode = U32(2) ->
                 IF a.kind = "Panic" \/ b.kind = "Panic" \/ out.kind = "Panic"
                 THEN [c |-> c, panic |-> Decoded(<<a, b, out>>, [op |-> "Multiply"]).panic]
                 ELSE Wide_arithmetic(c, I64_mul(Wide_value(a, c.memory),
                                                 Wide_value(b, c.memory), checks), out.v)
          [] om.opcode = U32(4) ->
                 IF a.kind = "Panic"
                 THEN [c |-> c, panic |-> a.panic]
                 ELSE [c |-> [c EXCEPT !.output = Append(c.output, Wide_value(a, c.memory)),
                                       !.pc = c.pc + 2],
                       panic |-> NoPanic]
          [] om.opcode = U32(99) -> [c |-> [c EXCEPT !.state = "Done"], panic |-> NoPanic]
          [] OTHER -> [c |-> c, panic |-> <<"Unknown opcode", om.opcode, "at pc", c.pc>>]

\* 2^50, the literal of run_example_3
Two50 == <<0, 0, 0, 0, 0, 0, 4, 0>>

\* i64::MAX
I64Max == <<255, 255, 255, 255, 255, 255, 255, 127>>

\* operands inside and outside the 32-bit range
WideValues ==
    { I64(n) : n \in {34915192, -34915192, 3, 65536, 2147483647, -2147483647 - 1} }
    \cup {Two50, I64Max}

\* run_example_2 over these operands, its Add counterpart, and run_example_3
WidePrograms ==
    { <<I64(opcode), a, b, I64(7), I64(4), I64(7), I64(99), I64(0)>> :
          opcode \in {1101, 1102}, a \in WideValues, b \in WideValues }
    \cup { <<I64(104), a, I64(99)>> : a \in WideValues }

InitWide ==
    /\ loaded \in WidePrograms
    /\ computer = Computer_new(loaded)
    /\ overflow_checks \in BOOLEAN
    /\ panic = NoPanic
    /\ caller = "run"
    /\ returned = None
    /\ prev = computer
    /\ lastOp = "run"
    /\ fed = <<>>
    /\ nread = 0
    /\ steps = 0
    /\ resume = None
    /\ cell_value = 0
    /\ opcode_modes = None
    /\ written = <<>>
    /\ got = None
    /\ SideIdle

WideStep ==
    /\ caller = "run"
    /\ is_runnable(computer)
    /\ LET r == Wide_step(computer, overflow_checks)
       IN  /\ computer' = r.c
           /\ panic' = r.panic
           /\ caller' = IF r.panic = NoPanic THEN "run" ELSE "aborted"
           /\ lastOp' = IF r.panic = NoPanic THEN "step" ELSE "panic"
    /\ prev' = computer
    /\ steps' = steps + 1
    /\ UNCHANGED <<overflow_checks, returned, fed, nread, loaded, resume, decodeVars, memoryVars, sideVars>>

WideReturn ==
    /\ caller = "run"
    /\ ~is_runnable(computer)
    /\ returned' = last_output(computer)
    /\ caller' = "idle"
    /\ prev' = computer
    /\ lastOp' = "return"
    /\ UNCHANGED <<computer, overflow_checks, panic, fed, nread, steps, loaded, resume,
                   decodeVars, memoryVars, sideVars>>

NextWide ==
    \/ WideStep
    \/ WideReturn

SpecWide == InitWide /\ [][NextWide]_vars

-----------------------------------------------------------------------------
(* The callback engine of day9 (day9/src/computer.rs) beside the Computer
   of day17, on the same program and the same input values.  day9's
   Computer has pc, relative_base and memory; run() takes a ProgramInput
   and a ProgramOutput.  Its relative_base is a usize, kept here as its
   eight bytes (least significant first), so that the casts between it and
   i64 are computed; addresses and pc follow the header's representation.
   OpcodeModes::parse, parameter_mode and Memory are word for word those of
   day17.  The record: pc, relative_base, memory, input (the values the
   ProgramInput returns, and how many it has returned), output (the values
   handed to the ProgramOutput), status ("running", "done", "aborted", or
   "starved" when the ProgramInput has no further value) and panic.  One
   step is one turn of each engine's loop. *)

\* OpcodeModes::index
Day9_index(om, d, p, checks) ==
    LET mode == parameter_mode(om, p)
    IN  IF mode \notin {U32(0), U32(1), U32(2)}
        THEN [kind |-> "Panic", panic |-> <<"Invalid parameter mode", mode>>]
        ELSE IF UsizeOverflows(d.pc, p + 1) /\ checks
        THEN [kind |-> "Panic", panic |-> OverflowPanic]
        ELSE IF mode = U32(2)
        THEN [kind |-> "Index",
              v |-> AsUsize(Memory_get(d.memory, d.pc + p + 1) + AsInt(d.relative_base))]
        ELSE [kind |-> "Index", v |-> AsUsize(Memory_get(d.memory, d.pc + p + 1))]

\* OpcodeModes::parameter
Day9_parameter(om, d, p, checks) ==
    LET index == Day9_index(om, d, p, checks)
        mode  == parameter_mode(om, p)
    IN  IF index.kind = "Panic" THEN index
        ELSE CASE mode = U32(0) -> [kind |-> "Position", v |-> index.v]
               [] mode = U32(1) -> [kind |-> "Immediate", v |-> index.v]
               [] mode = U32(2) -> [kind |-> "Relative", v |-> index.v]

\* mutant: a relative_base that would go below zero stays at zero
Day9_relative_base_Saturating(relative_base, by) ==
    IF AsInt(relative_base) + by < 0 THEN I64(0) ELSE I64(AsInt(relative_base) + by)

\* (computer.relative_base as i64 + by.value(&computer.memory)) as usize
Day9_relative_base(relative_base, by) == I64(AsInt(relative_base) + by)

\* one turn of run()'s loop: parse_instruction, then run_instruction unless it is Halt
Day9_turn(d, checks) ==
    LET om   == OpcodeModes_parse(Memory_get(d.memory, d.pc))
        a    == Day9_parameter(om, d, 0, checks)
        b    == Day9_parameter(om, d, 1, checks)
        out  == Day9_index(om, d, 2, checks)
        to   == Day9_index(om, d, 0, checks)
        value(parameter) == IF parameter.kind = "Immediate"
                            THEN parameter.v
                            ELSE Memory_get(d.memory, parameter.v)
        abort(diagnostic) == [d EXCEPT !.status = "aborted", !.panic = diagnostic]
        advance(e, n) == IF UsizeOverflows(d.pc, n) /\ checks
                         THEN [e EXCEPT !.status = "aborted", !.panic = OverflowPanic]
                         ELSE [e EXCEPT !.pc = d.pc + n]
        store(result) == advance([d EXCEPT !.memory = Memory_set(d.memory, out.v, result)], 4)
    IN  IF om.opcode = U32(99) THEN [d EXCEPT !.status = "done"]
        ELSE IF om.opcode \in {U32(1), U32(2), U32(7), U32(8)}
        THEN IF a.kind = "Panic" THEN abort(a.panic)
             ELSE IF b.kind = "Panic" THEN abort(b.panic)
             ELSE IF out.kind = "Panic" THEN abort(out.panic)
             ELSE store(CASE om.opcode = U32(1) -> value(a) + value(b)
                          [] om.opcode = U32(2) -> value(a) * value(b)
                          [] om.opcode = U32(7) -> IF value(a) < value(b) THEN 1 ELSE 0
                          [] om.opcode = U32(8) -> IF value(a) = value(b) THEN 1 ELSE 0)
        ELSE IF om.opcode = U32(3)
        THEN IF to.kind = "Panic" THEN abort(to.panic)
             ELSE IF d.input.index >= Len(d.input.values)
             THEN [d EXCEPT !.status = "starved"]
             ELSE advance([d EXCEPT !.memory = Memory_set(d.memory, to.v,
                                                          d.input.values[d.input.index + 1]),
                                    !.input.index = d.input.index + 1], 2)
        ELSE IF om.opcode = U32(4)
        THEN IF a.kind = "Panic" THEN abort(a.panic)
             ELSE advance([d EXCEPT !.output = Append(d.output, value(a))], 2)
        ELSE IF om.opcode \in {U32(5), U32(6)}
        THEN IF a.kind = "Panic" THEN abort(a.panic)
             ELSE IF b.kind = "Panic" THEN abort(b.panic)
             ELSE IF (value(a) # 0) = (om.opcode = U32(5))
             THEN [d EXCEPT !.pc = AsUsize(value(b))]
             ELSE advance(d, 3)
        ELSE IF om.opcode = U32(9)
        THEN IF a.kind = "Panic" THEN abort(a.panic)
             ELSE advance([d EXCEPT !.relative_base =
                                        Day9_relative_base(d.relative_base, value(a))], 2)
        ELSE abort(<<"Unknown opcode", om.opcode, "at pc", d.pc>>)

\* both engines constructed from one program; the values the ProgramInput
\* will return are passed to input() before run()
InitEquiv ==
    /\ loaded \in Programs
    /\ fed \in {<<>>, <<8>>, <<0, 8>>}
    /\ computer = CASE Len(fed) = 0 -> Computer_new(loaded)
                    [] Len(fed) = 1 -> Computer_input(Computer_new(loaded), fed[1])
                    [] Len(fed) = 2 -> Computer_input(Computer_input(Computer_new(loaded),
                                                                     fed[1]), fed[2])
    /\ day9 = [pc            |-> 0,
               relative_base |-> I64(0),
               memory        |-> Memory_for_program(loaded),
               input         |-> [values |-> fed, index |-> 0],
               output        |-> <<>>,
               status        |-> "running",
               panic         |-> NoPanic]
    /\ overflow_checks \in BOOLEAN
    /\ panic = NoPanic
    /\ caller = "run"
    /\ returned = None
    /\ prev = computer
    /\ lastOp = "run"
    /\ nread = 0
    /\ steps = 0
    /\ resume = None
    /\ cell_value = 0
    /\ opcode_modes = None
    /\ written = <<>>
    /\ got = None
    /\ Day2Idle
    /\ NetworkIdle
    /\ Day7Idle
    /\ io = None

\* a turn of the loop of each run()
EquivStep ==
    /\ is_runnable(computer)
    /\ panic = NoPanic
    /\ day9.status = "running"
    /\ steps < MaxSteps
    /\ LET r == Computer_step(computer, overflow_checks)
       IN  /\ computer' = r.c
           /\ panic' = r.panic
           /\ lastOp' = IF r.panic = NoPanic THEN "step" ELSE "panic"
    /\ day9' = Day9_turn(day9, overflow_checks)
    /\ prev' = computer
    /\ steps' = steps + 1
    /\ UNCHANGED <<overflow_checks, caller, returned, fed, nread, loaded, resume, decodeVars,
                   memoryVars, day2, net, netPrev, day7, io>>

NextEquiv == EquivStep

SpecEquiv == InitEquiv /\ [][NextEquiv]_vars

-----------------------------------------------------------------------------
(* What the claims speak of, read off the raw cells: the instruction at pc,
   its mode digits and operands, as the specification defines them. *)

RECURSIVE Pow10(_)
Pow10(k) == IF k = 0 THEN 1 ELSE 10 * Pow10(k - 1)

\* the k-th least-significant decimal digit of n >= 0 (0-indexed)
DigitOf(n, k) == (n \div Pow10(k)) % 10

Abs(n) == IF n >= 0 THEN n ELSE -n

\* the mode digit of parameter k of the instruction at c's pc
ModeOf(c, k) == DigitOf(Memory_get(c.memory, c.pc) \div 100, k)

\* the raw operand of parameter k of the instruction at c's pc
RawOperand(c, k) == Memory_get(c.memory, c.pc + k + 1)

\* the resolved value of read parameter k
ReadValue(c, k) ==
    CASE ModeOf(c, k) = 0 -> Memory_get(c.memory, RawOperand(c, k))
      [] ModeOf(c, k) = 1 -> RawOperand(c, k)
      [] ModeOf(c, k) = 2 -> Memory_get(c.memory, RawOperand(c, k) + c.relative_base)

\* parameter k is a write target in Position or Relative mode
LegalWrite(c, k) == ModeOf(c, k) \in {0, 2}

\* the address of write-target parameter k
WriteTarget(c, k) ==
    CASE ModeOf(c, k) = 0 -> RawOperand(c, k)
      [] ModeOf(c, k) = 2 -> RawOperand(c, k) + c.relative_base

\* the last operation was a completed step of an instruction with this opcode
Stepped(opcode) == lastOp = "step" /\ AtOpcode(prev, opcode)

\* the last operation stored value at address t and changed no other cell
WroteOnly(t, value) ==
    /\ Memory_get(computer.memory, t) = value
    /\ DOMAIN prev.memory \subseteq DOMAIN computer.memory
    /\ \A a \in DOMAIN computer.memory :
           a # t => Memory_get(computer.memory, a) = Memory_get(prev.memory, a)

-----------------------------------------------------------------------------
(* C1: an Input instruction executed with an empty input queue sets the state
   to WaitingForInput and leaves pc, relative_base, memory and the output
   queue (and the empty input queue) as they were. *)
C1_StarvedInputSuspends ==
    (Stepped(3) /\ prev.input = <<>>) =>
        computer = [prev EXCEPT !.state = "WaitingForInput"]

C1_Witness ==
    /\ Stepped(3)
    /\ prev.input = <<>>
    /\ prev.output # <<>>
    /\ computer.state = "WaitingForInput"

(* C2: the first instruction executed after input(v) woke a suspended
   Computer is the Input instruction it was suspended at; it stores v at its
   write target, advances pc by 2 and leaves the Computer Runnable; run()
   then goes on to the next suspension or Halt; for [3,0,99] address 0 holds
   v and the state is Done when run() returns. *)
C2_ResumeStoresInput ==
    /\ (lastOp = "step" /\ resume # None /\ resume[1] = steps - 1) =>
           /\ AtOpcode(prev, 3)
           /\ LegalWrite(prev, 0) =>
                  Memory_get(computer.memory, WriteTarget(prev, 0)) = resume[2]
           /\ computer.pc = prev.pc + 2
           /\ computer.state = "Runnable"
    /\ (lastOp = "return" /\ resume # None) =>
           computer.state \in {"WaitingForInput", "Done"}
    /\ (lastOp = "return" /\ resume # None /\ loaded = <<3, 0, 99>>) =>
           /\ Memory_get(computer.memory, 0) = resume[2]
           /\ computer.state = "Done"

C2_Witness ==
    /\ loaded = <<3, 0, 99>>
    /\ lastOp = "return"
    /\ resume # None
    /\ resume[2] = 8
    /\ Memory_get(computer.memory, 0) = 8
    /\ computer.state = "Done"

(* C3: once the Computer is Done, input(v) and run() leave its state, pc,
   relative_base, memory and output queue unchanged, and run() executes no
   instruction and changes nothing at all. *)
C3_DoneIsTerminal ==
    prev.state = "Done" =>
        /\ lastOp \in {"input", "run", "return", "print_output"}
        /\ computer.state = "Done"
        /\ computer.pc = prev.pc
        /\ computer.relative_base = prev.relative_base
        /\ computer.memory = prev.memory
        /\ lastOp # "print_output" => computer.output = prev.output
        /\ lastOp \in {"run", "return"} => computer = prev

C3_Witness ==
    /\ prev.state = "Done"
    /\ lastOp = "return"
    /\ computer.input # <<>>
    /\ computer.state = "Done"

(* C4: run() executes an instruction only when the state is Runnable, and
   when it returns the state is WaitingForInput or Done. *)
C4_RunStepsWhileRunnable ==
    /\ lastOp \in {"step", "panic"} => prev.state = "Runnable"
    /\ lastOp = "return" => computer.state \in {"WaitingForInput", "Done"}

C4_Witness ==
    /\ lastOp = "return"
    /\ steps > 1
    /\ computer.state = "WaitingForInput"

(* C5: from WaitingForInput the state changes only by input(), and then to
   Runnable; run() and every other operation leave it WaitingForInput, and
   no instruction is executed. *)
C5_WaitingUntilInput ==
    prev.state = "WaitingForInput" =>
        /\ lastOp \notin {"step", "panic"}
        /\ computer.state = IF lastOp = "input" THEN "Runnable" ELSE "WaitingForInput"

C5_Witness ==
    /\ prev.state = "WaitingForInput"
    /\ lastOp = "input"
    /\ computer.state = "Runnable"

(* C6: the input queue holds exactly the values passed to input() that no
   completed Input instruction has taken, in call order, and the k-th
   completed Input instruction stores the k-th value passed to input(). *)
C6_InputFifo ==
    panic = NoPanic =>
        /\ nread <= Len(fed)
        /\ computer.input = SubSeq(fed, nread + 1, Len(fed))
        /\ (Stepped(3) /\ computer.state = "Runnable") =>
               /\ Len(computer.input) = Len(prev.input) - 1
               /\ \E t \in DOMAIN computer.memory : WroteOnly(t, fed[nread])
               /\ LegalWrite(prev, 0) => WroteOnly(WriteTarget(prev, 0), fed[nread])

C6_Witness ==
    /\ Stepped(3)
    /\ computer.state = "Runnable"
    /\ nread = 2
    /\ fed[1] # fed[2]
    /\ Len(prev.input) = 1

(* C7: an Output instruction appends its resolved parameter, and nothing
   else, at the back of the output queue and advances pc by 2; no other
   instruction adds to the output queue. *)
C7_OutputAppends ==
    /\ Stepped(4) =>
           computer = [prev EXCEPT !.output = Append(prev.output, ReadValue(prev, 0)),
                                   !.pc = prev.pc + 2]
    /\ (panic = NoPanic /\ computer.output # prev.output) =>
           \/ Stepped(4)
           \/ lastOp = "print_output" /\ computer.output = <<>>

C7_Witness ==
    /\ Stepped(4)
    /\ computer.output = <<1, 2, 3>>

(* C8, as amended: for a cell value v >= 0, the opcode is v mod 100 and the
   mode of parameter k is the k-th least-significant digit of v / 100, 0
   past the last digit. *)
C8_DecodeNonNegative ==
    (opcode_modes # None /\ cell_value >= 0) =>
        /\ opcode_modes[1].opcode = U32(cell_value % 100)
        /\ \A k \in 0..5 :
               parameter_mode(opcode_modes[1], k) = U32(DigitOf(cell_value \div 100, k))

C8_Witness ==
    /\ opcode_modes # None
    /\ cell_value = 21002
    /\ opcode_modes[1].opcode = U32(2)
    /\ opcode_modes[1].modes = <<U32(0), U32(1), U32(2)>>

(* C8, as stated: the same for any cell value v, negative ones included. *)
C8_DecodeAnyCell ==
    opcode_modes # None =>
        /\ opcode_modes[1].opcode = U32(cell_value % 100)
        /\ \A k \in 0..5 :
               parameter_mode(opcode_modes[1], k)
                   = U32(DigitOf(Abs(TruncDiv(cell_value, 100)), k))

(* C9: Add stores the sum and Multiply the product of the two resolved read
   parameters at the write target, changes no other cell and advances pc by
   4. *)
C9_AddMultiply ==
    /\ (Stepped(1) /\ LegalWrite(prev, 2)) =>
           /\ WroteOnly(WriteTarget(prev, 2), ReadValue(prev, 0) + ReadValue(prev, 1))
           /\ computer.pc = prev.pc + 4
    /\ (Stepped(2) /\ LegalWrite(prev, 2)) =>
           /\ WroteOnly(WriteTarget(prev, 2), ReadValue(prev, 0) * ReadValue(prev, 1))
           /\ computer.pc = prev.pc + 4

C9_Witness ==
    /\ Stepped(1)
    /\ Memory_get(prev.memory, prev.pc) = 1101
    /\ RawOperand(prev, 0) = 2
    /\ RawOperand(prev, 1) = 3
    /\ Memory_get(computer.memory, RawOperand(prev, 2)) = 5

(* C10: LessThan stores 1 at the write target when its first resolved value
   is strictly less than its second and 0 otherwise, Equals stores 1 when
   they are equal and 0 otherwise; both change no other cell and advance pc
   by 4. *)
C10_LessThanEquals ==
    /\ (Stepped(7) /\ LegalWrite(prev, 2)) =>
           /\ WroteOnly(WriteTarget(prev, 2),
                        IF ReadValue(prev, 0) < ReadValue(prev, 1) THEN 1 ELSE 0)
           /\ computer.pc = prev.pc + 4
    /\ (Stepped(8) /\ LegalWrite(prev, 2)) =>
           /\ WroteOnly(WriteTarget(prev, 2),
                        IF ReadValue(prev, 0) = ReadValue(prev, 1) THEN 1 ELSE 0)
           /\ computer.pc = prev.pc + 4

C10_Witness ==
    /\ Stepped(7)
    /\ ReadValue(prev, 0) = ReadValue(prev, 1)
    /\ LegalWrite(prev, 2)
    /\ Memory_get(prev.memory, WriteTarget(prev, 2)) # 0
    /\ Memory_get(computer.memory, WriteTarget(prev, 2)) = 0

(* C11: JumpIfTrue sets pc to its second resolved value when its first
   resolved value is non-zero, JumpIfFalse when it is zero; otherwise each
   advances pc by 3; neither changes anything but pc. *)
C11_Jumps ==
    /\ Stepped(5) =>
           computer = [prev EXCEPT !.pc = IF ReadValue(prev, 0) # 0
                                          THEN ReadValue(prev, 1)
                                          ELSE prev.pc + 3]
    /\ Stepped(6) =>
           computer = [prev EXCEPT !.pc = IF ReadValue(prev, 0) = 0
                                          THEN ReadValue(prev, 1)
                                          ELSE prev.pc + 3]

C11_Witness ==
    /\ Stepped(6)
    /\ prev.pc = 0
    /\ ReadValue(prev, 0) = 0
    /\ ReadValue(prev, 1) = 4
    /\ computer.pc = 4

(* C12: RelativeBaseOffset adds its resolved value, negative or not, to
   relative_base and advances pc by 2, changing nothing else; a Relative-mode
   parameter with raw operand r addresses cell r + relative_base, as a read
   (Output) and as a write target (Input, Add, Multiply, LessThan, Equals);
   with relative_base = 2000 and r = -1 the cell is 1999. *)
ThreeResult(c) ==
    CASE AtOpcode(c, 1) -> ReadValue(c, 0) + ReadValue(c, 1)
      [] AtOpcode(c, 2) -> ReadValue(c, 0) * ReadValue(c, 1)
      [] AtOpcode(c, 7) -> IF ReadValue(c, 0) < ReadValue(c, 1) THEN 1 ELSE 0
      [] AtOpcode(c, 8) -> IF ReadValue(c, 0) = ReadValue(c, 1) THEN 1 ELSE 0

RelativeProgram == <<109, 2000, 21101, 5, 6, -1, 204, -1, 4, 1999, 99>>

C12_RelativeBase ==
    /\ Stepped(9) =>
           computer = [prev EXCEPT
                          !.relative_base = prev.relative_base + ReadValue(prev, 0),
                          !.pc = prev.pc + 2]
    /\ (Stepped(4) /\ ModeOf(prev, 0) = 2) =>
           computer.output = Append(prev.output,
               Memory_get(prev.memory, RawOperand(prev, 0) + prev.relative_base))
    /\ (Stepped(3) /\ ModeOf(prev, 0) = 2 /\ computer.state = "Runnable") =>
           WroteOnly(RawOperand(prev, 0) + prev.relative_base, Head(prev.input))
    /\ \A opcode \in {1, 2, 7, 8} :
           (Stepped(opcode) /\ ModeOf(prev, 2) = 2) =>
               WroteOnly(RawOperand(prev, 2) + prev.relative_base, ThreeResult(prev))
    /\ (loaded = RelativeProgram /\ Stepped(99)) =>
           /\ computer.relative_base = 2000
           /\ Memory_get(computer.memory, 1999) = 11
           /\ computer.output = <<11, 11>>

C12_Witness ==
    /\ loaded = RelativeProgram
    /\ Stepped(4)
    /\ ModeOf(prev, 0) = 2
    /\ RawOperand(prev, 0) = -1
    /\ prev.relative_base = 2000
    /\ 1999 \in DOMAIN prev.memory
    /\ computer.output = <<prev.memory[1999]>>

(* C13: get(a) returns the value most recently set at a, the program's cell
   where a was never set and lies inside the program, and 0 for an address
   never written; set(a, v) changes the value at a only, also beyond the
   loaded program, and no address is ever removed. *)
RECURSIVE LastSet(_, _, _)
LastSet(log, program, a) ==
    IF log = <<>>
    THEN IF a \in 0..(Len(program) - 1) THEN program[a + 1] ELSE 0
    ELSE IF log[Len(log)][1] = a
         THEN log[Len(log)][2]
         ELSE LastSet(SubSeq(log, 1, Len(log) - 1), program, a)

C13_MemoryGetSet ==
    /\ got # None => got[2] = LastSet(written, loaded, got[1])
    /\ lastOp = "set" =>
           /\ WroteOnly(written[Len(written)][1], written[Len(written)][2])
           /\ DOMAIN computer.memory = DOMAIN prev.memory \cup {written[Len(written)][1]}
    /\ \A i \in 1..Len(written) : written[i][1] \in DOMAIN computer.memory
    /\ 0..(Len(loaded) - 1) \subseteq DOMAIN computer.memory

C13_Witness ==
    /\ loaded = <<1, 2, 3>>
    /\ written = << <<10, 5>>, <<0, 5>>, <<10, 0>> >>
    /\ got = <<10, 0>>
    /\ DOMAIN computer.memory = {0, 1, 2, 10}

(* C14, as amended: the write target of Add, Multiply, Input, LessThan and
   Equals is resolved as address = raw operand when its mode digit is 0 or
   1, and as raw operand + relative_base when it is 2; no other digit is
   accepted. *)
IndexOf(c, k) ==
    IF ModeOf(c, k) = 2 THEN RawOperand(c, k) + c.relative_base ELSE RawOperand(c, k)

C14_WriteTargetModes ==
    /\ \A opcode \in {1, 2, 7, 8} :
           Stepped(opcode) =>
               /\ ModeOf(prev, 2) \in {0, 1, 2}
               /\ WroteOnly(IndexOf(prev, 2), ThreeResult(prev))
    /\ Stepped(3) =>
           /\ ModeOf(prev, 0) \in {0, 1, 2}
           /\ computer.state = "Runnable" =>
                  WroteOnly(IndexOf(prev, 0), Head(prev.input))

C14_Witness ==
    /\ Stepped(1)
    /\ ModeOf(prev, 2) = 1
    /\ prev.relative_base = 1
    /\ RawOperand(prev, 2) = 5
    /\ Memory_get(prev.memory, 5) = 5
    /\ Memory_get(computer.memory, 5) = 2

(* C14, as stated: an instruction whose write-target mode digit is 1 is not
   executed: every write target of a completed step is in Position or
   Relative mode. *)
C14_ImmediateWriteRejected ==
    /\ \A opcode \in {1, 2, 7, 8} : Stepped(opcode) => ModeOf(prev, 2) \in {0, 2}
    /\ Stepped(3) => ModeOf(prev, 0) \in {0, 2}

(* C15: a step at a cell whose opcode is not one of 1..9 or 99 aborts with
   a diagnostic naming the opcode and pc, and leaves pc, relative_base,
   state, memory and both queues exactly as they were before the step. *)
\* the opcode of a cell as the diagnostic prints it (a u32: v mod 100, and
\* 2^32 - (|v| mod 100) for a negative v not a multiple of 100)
OpcodeOfCell(v) ==
    IF v >= 0 THEN U32(v % 100)
    ELSE IF (-v) % 100 = 0 THEN U32(0)
    ELSE [hi |-> 65535, lo |-> 65536 - ((-v) % 100)]

UnknownOpcodeAt(c) ==
    LET v == Memory_get(c.memory, c.pc)
    IN  v < 0 \/ v % 100 \notin (1..9) \cup {99}

C15_UnknownOpcodeAborts ==
    /\ (lastOp \in {"step", "panic"} /\ UnknownOpcodeAt(prev)) =>
           /\ lastOp = "panic"
           /\ caller = "aborted"
           /\ panic = <<"Unknown opcode", OpcodeOfCell(Memory_get(prev.memory, prev.pc)),
                        "at pc", prev.pc>>
           /\ computer = prev
    /\ (panic # NoPanic /\ panic[1] = "Unknown opcode") => UnknownOpcodeAt(prev)

C15_Witness ==
    /\ lastOp = "panic"
    /\ panic = <<"Unknown opcode", U32(0), "at pc", 6>>
    /\ Memory_get(prev.memory, 6) = 1100
    /\ prev.relative_base = 5
    /\ prev.output = <<7>>
    /\ Len(prev.input) = 1
    /\ computer = prev

(* C16, as amended: an instruction whose mode digit for one of the
   parameters its opcode takes is outside {0, 1, 2} aborts when it is
   decoded, whichever of those parameters the digit belongs to, and nothing
   has changed when it does. *)
\* the number of parameters of an opcode
Arity(opcode) ==
    CASE opcode \in {1, 2, 7, 8} -> 3
      [] opcode \in {5, 6}       -> 2
      [] opcode \in {3, 4, 9}    -> 1
      [] OTHER                   -> 0

\* parameter k of the opcode is a write target
IsWrite(opcode, k) == (opcode \in {1, 2, 7, 8} /\ k = 2) \/ (opcode = 3 /\ k = 0)

OpcodeAt(c) == Memory_get(c.memory, c.pc) % 100

\* the parameter positions of the instruction at c's pc whose digit is invalid
InvalidDigits(c, positions) ==
    IF Memory_get(c.memory, c.pc) >= 0
    THEN { k \in positions : ModeOf(c, k) \notin {0, 1, 2} }
    ELSE {}

FirstOf(S) == CHOOSE k \in S : \A j \in S : k <= j

C16_UsedModeDigitFatal ==
    LET bad == InvalidDigits(prev, 0..(Arity(OpcodeAt(prev)) - 1))
    IN  (lastOp \in {"step", "panic"} /\ bad # {}) =>
            /\ lastOp = "panic"
            /\ caller = "aborted"
            /\ computer = prev
            /\ \/ panic = <<IF IsWrite(OpcodeAt(prev), FirstOf(bad))
                             THEN "Invalid parameter index for mode"
                             ELSE "Invalid parameter mode",
                             U32(ModeOf(prev, FirstOf(bad)))>>
               \/ panic = OverflowPanic /\ overflow_checks /\ prev.pc < 0

C16_Witness ==
    /\ lastOp = "panic"
    /\ AtOpcode(prev, 5)
    /\ ModeOf(prev, 0) = 0
    /\ ModeOf(prev, 1) = 3
    /\ prev.relative_base = 1
    /\ panic = <<"Invalid parameter mode", U32(3)>>

(* C16, as stated: a cell with any mode digit outside {0, 1, 2}, on any
   digit position, aborts when it is decoded. *)
C16_AnyInvalidDigitFatal ==
    (lastOp \in {"step", "panic"} /\ InvalidDigits(prev, 0..4) # {}) => lastOp = "panic"

(* C17, as amended: in the suspend/resume engine executing Halt is not
   fatal: the Halt instruction sets the state to Done and changes nothing
   else, a Computer that is Done never aborts, and a run() on it executes
   no instruction, changes nothing and returns the last output. *)
C17_HaltIsDone ==
    /\ (lastOp \in {"step", "panic"} /\ AtOpcode(prev, 99)) =>
           /\ lastOp = "step"
           /\ panic = NoPanic
           /\ computer = [prev EXCEPT !.state = "Done"]
    /\ computer.state = "Done" => panic = NoPanic /\ caller # "aborted"
    /\ (prev.state = "Done" /\ lastOp = "return") =>
           /\ computer = prev
           /\ returned = last_output(computer)

C17_Witness ==
    /\ loaded = <<104, 50, 99>>
    /\ prev.state = "Done"
    /\ lastOp = "return"
    /\ steps = 2
    /\ computer.output = <<>>
    /\ returned = None
    /\ panic = NoPanic

(* C17, as stated: executing the Halt instruction aborts the process, and
   so does running a Computer that has already halted. *)
C17_PastHaltFatal ==
    /\ (lastOp \in {"step", "panic"} /\ AtOpcode(prev, 99)) => lastOp = "panic"
    /\ (prev.state = "Done" /\ lastOp = "return") => panic # NoPanic

(* C18: values are 64 bits wide and nothing truncates them: the sum or
   product of two operands of the 32-bit range is stored exactly, also when
   it passes that range, a stored value is output unchanged, 34915192 *
   34915192 is output as 1219070632396864 and the literal 1125899906842624
   as itself. *)
\* five primes whose product exceeds 2^64: two i64 with the same residues are equal
Primes == {32707, 32713, 32717, 32719, 32749}

\* the residue mod p of the number with these digits, most significant first
RECURSIVE HornerMod(_, _, _, _)
HornerMod(digits, base, p, k) ==
    IF k = 0 THEN 0 ELSE (HornerMod(digits, base, p, k - 1) * base + digits[k]) % p

\* the residue of a decimal numeral given in groups of four digits
DecMod(groups, p) == HornerMod(groups, 10000, p, Len(groups))

\* the residue of the i64 x
I64Mod(x, p) ==
    LET unsigned == HornerMod([i \in 1..8 |-> x[9 - i]], 256, p, 8)
        two64    == HornerMod(<<1, 0, 0, 0, 0, 0, 0, 0, 0>>, 256, p, 9)
    IN  IF IsNegative(x) THEN (unsigned + p - two64) % p ELSE unsigned

WideAt(c, opcode) == AsInt(Wide_get(c.memory, c.pc)) % 100 = opcode

C18_WideValuesExact ==
    /\ (lastOp = "step" /\ WideAt(prev, 1) /\ Fits32(loaded[2]) /\ Fits32(loaded[3])) =>
           \A p \in Primes :
               I64Mod(Wide_get(computer.memory, 7), p)
                   = (I64Mod(loaded[2], p) + I64Mod(loaded[3], p)) % p
    /\ (lastOp = "step" /\ WideAt(prev, 2) /\ Fits32(loaded[2]) /\ Fits32(loaded[3])) =>
           \A p \in Primes :
               I64Mod(Wide_get(computer.memory, 7), p)
                   = (I64Mod(loaded[2], p) * I64Mod(loaded[3], p)) % p
    /\ (lastOp = "step" /\ WideAt(prev, 4) /\ Len(loaded) = 8) =>
           computer.output = <<Wide_get(prev.memory, 7)>>
    /\ (lastOp = "step" /\ WideAt(prev, 4) /\ Len(loaded) = 3) =>
           computer.output = <<loaded[2]>>
    /\ (computer.state = "Done" /\ loaded[1] = I64(1102)
            /\ loaded[2] = I64(34915192) /\ loaded[3] = I64(34915192)) =>
           /\ Len(computer.output) = 1
           /\ ~IsNegative(computer.output[1])
           /\ \A p \in Primes :
                  I64Mod(computer.output[1], p) = DecMod(<<1219, 706, 3239, 6864>>, p)
    /\ (computer.state = "Done" /\ loaded = <<I64(104), Two50, I64(99)>>) =>
           /\ computer.output = <<Two50>>
           /\ \A p \in Primes : I64Mod(Two50, p) = DecMod(<<1125, 8999, 684, 2624>>, p)

C18_Witness ==
    /\ lastOp = "return"
    /\ loaded[1] = I64(1102)
    /\ loaded[2] = I64(34915192)
    /\ loaded[3] = I64(34915192)
    /\ computer.state = "Done"
    /\ returned = Some(<<64, 8, 0, 0, 189, 84, 4, 0>>)
    /\ ~Fits32(returned[1])

(* C19: an instruction is decoded from memory as it is when pc reaches it:
   a cell the program has overwritten (or created past its end) is executed
   in its new form; [1101,100,-1,4,0] writes 99 to address 4 and halts
   there. *)
\* the cell at c's pc is not the one the program was loaded with
Overwritten(c) ==
    Memory_get(c.memory, c.pc)
        # (IF c.pc \in 0..(Len(loaded) - 1) THEN loaded[c.pc + 1] ELSE 0)

SelfModifying == <<1101, 100, -1, 4, 0>>

C19_DecodedFresh ==
    /\ (lastOp = "step" /\ Overwritten(prev)) =>
           /\ Memory_get(prev.memory, prev.pc) >= 0
           /\ CASE OpcodeAt(prev) = 99 ->
                       computer = [prev EXCEPT !.state = "Done"]
                [] OpcodeAt(prev) \in {1, 2, 7, 8} ->
                       /\ computer.pc = prev.pc + 4
                       /\ computer.output = prev.output
                [] OpcodeAt(prev) = 3 ->
                       \/ computer = [prev EXCEPT !.state = "WaitingForInput"]
                       \/ computer.pc = prev.pc + 2 /\ computer.input = Tail(prev.input)
                [] OpcodeAt(prev) = 4 ->
                       /\ computer.pc = prev.pc + 2
                       /\ Len(computer.output) = Len(prev.output) + 1
                [] OpcodeAt(prev) \in {5, 6} ->
                       computer = [prev EXCEPT !.pc = computer.pc]
                [] OpcodeAt(prev) = 9 ->
                       /\ computer.pc = prev.pc + 2
                       /\ computer.memory = prev.memory
                [] OTHER -> FALSE
    /\ (lastOp = "panic" /\ Overwritten(prev) /\ panic[1] = "Unknown opcode") =>
           UnknownOpcodeAt(prev)
    /\ (loaded = SelfModifying /\ steps = 1) =>
           /\ lastOp = "step"
           /\ computer.pc = 4
           /\ Memory_get(computer.memory, 4) = 99
    /\ (loaded = SelfModifying /\ steps = 2 /\ lastOp \in {"step", "panic"}) =>
           /\ lastOp = "step"
           /\ computer = [prev EXCEPT !.state = "Done"]

C19_Witness ==
    /\ loaded = SelfModifying
    /\ lastOp = "step"
    /\ steps = 2
    /\ Overwritten(prev)
    /\ computer.state = "Done"
    /\ computer.pc = 4
    /\ Memory_get(computer.memory, 4) = 99

(* C20: run with no input, the program of run_example_1 halts, without
   suspending or aborting, after 81 instructions, and its output is then
   the program itself, value for value and in order; while it runs the
   output is the part of the program copied so far. *)
C20_Quine ==
    /\ panic = NoPanic
    /\ computer.state # "WaitingForInput"
    /\ steps <= 81
    /\ caller = "run" => computer.output = SubSeq(loaded, 1, Len(computer.output))
    /\ (lastOp = "step" /\ computer.state = "Done") =>
           /\ computer.output = loaded
           /\ steps = 81
    /\ lastOp = "return" =>
           /\ computer.state = "Done"
           /\ returned = last_output(computer)
    /\ (lastOp = "return" /\ computer.output # <<>>) =>
           /\ computer.output = Quine
           /\ returned = Some(99)

C20_Witness ==
    /\ loaded = Quine
    /\ lastOp = "return"
    /\ computer.state = "Done"
    /\ computer.output = Quine
    /\ fed = <<>>
    /\ steps = 81

(* C21: the program 1,9,10,3,2,3,11,0,99,30,40,50 halts with address 0
   equal to 3500 and final memory 3500,9,10,70,2,3,11,0,99,30,40,50, in the
   arithmetic-only engine and in the Computer; whenever both engines halt
   on a program they leave the same memory. *)
Gravity == <<1, 9, 10, 3, 2, 3, 11, 0, 99, 30, 40, 50>>

GravityFinal == <<3500, 9, 10, 70, 2, 3, 11, 0, 99, 30, 40, 50>>

C21_Gravity ==
    /\ loaded = Gravity =>
           /\ panic = NoPanic
           /\ day2.status \in {"running", "done"}
           /\ computer.state \in {"Runnable", "Done"}
    /\ (loaded = Gravity /\ day2.status = "done") =>
           /\ day2.program = GravityFinal
           /\ day2.program[1] = 3500
           /\ day2.pc = 8
    /\ (loaded = Gravity /\ computer.state = "Done") =>
           /\ computer.memory = Memory_for_program(GravityFinal)
           /\ Memory_get(computer.memory, 0) = 3500
           /\ computer.pc = 8
    /\ (day2.status = "done" /\ computer.state = "Done") =>
           computer.memory = Memory_for_program(day2.program)

C21_Witness ==
    /\ loaded = Gravity
    /\ day2.status = "done"
    /\ day2.program[1] = 3500
    /\ computer.state = "Done"
    /\ lastOp = "return"
    /\ Memory_get(computer.memory, 0) = 3500

(* C22: whenever a step reads or writes memory through a Relative-mode
   parameter, the effective address raw operand + relative_base is
   non-negative. *)
\* parameter k of the instruction at c's pc is one the completed step used
UsedRelative(c, k) ==
    /\ Memory_get(c.memory, c.pc) >= 0
    /\ k < Arity(OpcodeAt(c))
    /\ ModeOf(c, k) = 2

C22_EffectiveAddressNonNegative ==
    \A k \in 0..2 :
        (lastOp = "step" /\ UsedRelative(prev, k) /\ computer.state # "WaitingForInput") =>
            RawOperand(prev, k) + prev.relative_base >= 0

-----------------------------------------------------------------------------
(* The network driver: what its last step did *)

\* the driver's last step was the stage `stage` of a visit (or the NAT's turn)
NetDid(stage) == netPrev.at = stage /\ net # netPrev

\* the instance being visited when the last step was taken, before and after it
NetBefore == netPrev.networked_computers[netPrev.i + 1]

NetAfter == net.networked_computers[netPrev.i + 1]

\* every instance but the ones at the addresses in S is as it was before the last step
NetOthersUntouched(S) ==
    \A a \in 0..(NumComputers - 1) :
        a \notin S => net.networked_computers[a + 1] = netPrev.networked_computers[a + 1]

(* C23: at the head of a visit the instance is fed the sentinel -1, once,
   exactly when it is WaitingForInput with an empty input queue; an
   instance with queued input, or Runnable, or Done, is fed nothing. *)
C23_SentinelWhenStarved ==
    NetDid("visit") =>
        /\ NetOthersUntouched({netPrev.i})
        /\ IF NetBefore.state = "WaitingForInput" /\ NetBefore.input = <<>>
           THEN NetAfter = [NetBefore EXCEPT !.input = <<-1>>, !.state = "Runnable"]
           ELSE NetAfter = NetBefore

C23_Witness ==
    /\ NetDid("visit")
    /\ NetBefore.state = "WaitingForInput"
    /\ NetBefore.input = <<>>
    /\ NetAfter.input = <<-1>>
    /\ net.passes >= 1

(* C24: the drained output is routed window by window, three values at a
   time from its front, each window once and in order;
   a window (destination, x, y) whose destination is the address of an
   instance appends x and then y, next to each other, at the back of that
   instance's input queue and touches nothing else; a destination that is
   neither 255 nor the address of an instance aborts the driver with an
   index-out-of-bounds panic, nothing being appended for that window. *)
\* the window the last routing step handled
NetWindow == <<netPrev.output[3 * netPrev.window + 1],
               netPrev.output[3 * netPrev.window + 2],
               netPrev.output[3 * netPrev.window + 3]>>

\* the last routing step appended x and then y to the instance the window names
NetAppended ==
    LET a == NetWindow[1]
    IN  /\ a \in 0..(NumComputers - 1)
        /\ net.networked_computers[a + 1].input =
               netPrev.networked_computers[a + 1].input \o <<NetWindow[2], NetWindow[3]>>
        /\ net.networked_computers[a + 1].output = netPrev.networked_computers[a + 1].output
        /\ net.networked_computers[a + 1].memory = netPrev.networked_computers[a + 1].memory
        /\ net.networked_computers[a + 1].pc = netPrev.networked_computers[a + 1].pc
        /\ NetOthersUntouched({a})

\* the routing loop went on to its next window, or past its last one
NetWindowsInOrder ==
    IF 3 * (netPrev.window + 1) < Len(netPrev.output)
    THEN net.at = "route" /\ net.window = netPrev.window + 1 /\ net.output = netPrev.output
    ELSE net.at \in {"visit", "nat"}

C24_PacketsRoutedInOrder ==
    /\ (NetDid("dump") /\ net.at # "aborted") =>
           /\ NetOthersUntouched({netPrev.i})
           /\ NetAfter.input = NetBefore.input
           /\ IF net.output = <<>>
              THEN net.at \in {"visit", "nat"}
              ELSE net.at = "route" /\ net.window = 0
    /\ (NetDid("route") /\ NetWindow[1] \in 0..(NumComputers - 1)) =>
           NetAppended /\ NetWindowsInOrder
    /\ (NetDid("route") /\ NetWindow[1] \notin (0..(NumComputers - 1)) \cup {255}) =>
           /\ net.at = "aborted"
           /\ net.panic = IndexPanic(NetWindow[1], NumComputers)
           /\ NetOthersUntouched({})

\* instance 0 holds two packets of its own and two of instance 1, each whole and in order
C24_Witness ==
    /\ NetDid("route")
    /\ netPrev.i = 1
    /\ NetWindow = <<0, 3, 1>>
    /\ NetAppended
    /\ net.networked_computers[1].input = <<1, 0, 3, 0, 1, 1, 3, 1>>

\* as the claim has it: every window whose destination is not 255 is appended to an instance's queue
C24_EveryDestinationRouted ==
    (NetDid("route") /\ NetWindow[1] # 255) => NetAppended

(* C25: in part2 the NAT holds one packet, the last one routed to 255: a
   window (255, x, y) replaces the remembered packet by (x, y) and leaves
   every instance, input queues included, as it was; nothing else changes
   what the NAT remembers. *)
C25_NatKeepsLatest ==
    net.part = 2 =>
        /\ (NetDid("route") /\ NetWindow[1] = 255) =>
               /\ net.nat_x = Some(NetWindow[2])
               /\ net.nat_y = Some(NetWindow[3])
               /\ NetOthersUntouched({})
               /\ NetWindowsInOrder
        /\ (net.nat_x # netPrev.nat_x \/ net.nat_y # netPrev.nat_y) =>
               NetDid("route") /\ NetWindow[1] = 255
        /\ (net.nat_x = None) = (net.nat_y = None)

\* (3, 4) replaces (1, 2), which an earlier window of the batch gave the NAT
C25_Witness ==
    /\ net.part = 2
    /\ NetDid("route")
    /\ NetWindow = <<255, 3, 4>>
    /\ netPrev.nat_x = Some(1)
    /\ netPrev.nat_y = Some(2)
    /\ net.nat_x = Some(3)
    /\ net.nat_y = Some(4)

(* C26: at the end of a pass of part2 the NAT appends its remembered (x, y)
   to instance 0's input queue, and changes nothing else, exactly when the
   pass was quiet (every instance was WaitingForInput with an empty input
   queue when visited and none produced output), the NAT holds a packet
   and the driver does not return its answer; after a quiet pass with a
   NAT that holds nothing the driver aborts on unwrap(); after a pass that
   was not quiet nothing is injected and the next pass begins. *)
\* the pass that the NAT's turn closed was quiet
NetQuietPass ==
    /\ Len(netPrev.starved) = NumComputers
    /\ Len(netPrev.produced) = NumComputers
    /\ \A a \in 1..NumComputers : netPrev.starved[a] /\ netPrev.produced[a] = 0

\* the NAT's turn appended the remembered packet to instance 0's input queue
NetInjected ==
    /\ netPrev.nat_x # None
    /\ netPrev.nat_y # None
    /\ net.at = "visit"
    /\ net.networked_computers[1].input =
           netPrev.networked_computers[1].input \o <<netPrev.nat_x[1], netPrev.nat_y[1]>>
    /\ NetOthersUntouched({0})

C26_NatTurn ==
    NetDid("nat") =>
        /\ netPrev.idle = NetQuietPass
        /\ (NetQuietPass /\ netPrev.nat_x # None) => (NetInjected \/ net.at = "returned")
        /\ (NetQuietPass /\ netPrev.nat_x = None) =>
               /\ net.at = "aborted"
               /\ net.panic = <<"called Option::unwrap() on a None value">>
               /\ NetOthersUntouched({})
        /\ ~NetQuietPass =>
               /\ net.at = "visit"
               /\ NetOthersUntouched({})

\* the NAT injects (2, 6) after the second pass, in which every instance was starved and silent
C26_Witness ==
    /\ NetDid("nat")
    /\ NetQuietPass
    /\ NetInjected
    /\ netPrev.networked_computers[1].input = <<>>
    /\ net.networked_computers[1].input = <<NumComputers - 1, 6>>

\* as the claim has it: after every quiet pass the NAT injects (or the driver returns its answer)
C26_NatInjectsWhenIdle ==
    NetDid("nat") =>
        /\ NetQuietPass => (NetInjected \/ net.at = "returned")
        /\ ~NetQuietPass =>
               /\ net.at = "visit"
               /\ NetOthersUntouched({})

(* C27: part2 returns exactly at a NAT's turn that closes a quiet pass with
   a remembered Y equal to the Y of the NAT's last delivery, and returns
   that Y; the first delivery, and a Y equal only to an earlier delivery
   than the last one, do not end the driver. *)
\* the Y of the NAT's last delivery before the last step, if there was one
NetLastDeliveredY ==
    IF netPrev.delivered = <<>>
    THEN None
    ELSE Some(netPrev.delivered[Len(netPrev.delivered)][2])

C27_ReturnsOnRepeatedY ==
    net.part = 2 =>
        /\ NetDid("nat") =>
               /\ (net.at = "returned") =
                      (NetQuietPass /\ netPrev.nat_y # None /\ netPrev.nat_y = NetLastDeliveredY)
               /\ net.at = "returned" => net.result = netPrev.nat_y
               /\ (net.at = "visit" /\ NetQuietPass) =>
                      net.delivered = Append(netPrev.delivered,
                                             <<netPrev.nat_x[1], netPrev.nat_y[1]>>)
               /\ ~NetQuietPass => net.delivered = netPrev.delivered
        /\ net.at = "returned" => NetDid("nat")
        /\ ~NetDid("nat") => net.delivered = netPrev.delivered

\* the driver returns 4 when the NAT is about to deliver (3, 4) a second time
C27_Witness ==
    /\ net.part = 2
    /\ NetDid("nat")
    /\ net.at = "returned"
    /\ net.result = Some(4)
    /\ net.delivered = <<(<<3, 4>>)>>

(* C28: running one instance changes no other instance; an instance's pc,
   relative_base and memory change only in its own run, its output queue
   only in its own run and drain, its state only in its own run or when
   input() wakes it, and its input queue only by a value the driver
   appends (a sentinel to the visited instance, a routed packet to its
   destination, a NAT packet to instance 0) or by its own run taking
   values from the front. *)
\* sequence t is what is left of sequence q after taking values from its front
IsSuffix(t, q) ==
    /\ Len(t) <= Len(q)
    /\ \A k \in 1..Len(t) : t[k] = q[Len(q) - Len(t) + k]

\* the state of instance a changed as input() changes it: woken by a longer queue
NetWoken(a) ==
    /\ netPrev.networked_computers[a + 1].state = "WaitingForInput"
    /\ net.networked_computers[a + 1].state = "Runnable"
    /\ Len(net.networked_computers[a + 1].input) > Len(netPrev.networked_computers[a + 1].input)

C28_NoSharedState ==
    /\ NetDid("run") =>
           /\ NetOthersUntouched({netPrev.i})
           /\ IsSuffix(NetAfter.input, NetBefore.input)
    /\ \A a \in 0..(NumComputers - 1) :
           LET was == netPrev.networked_computers[a + 1]
               is  == net.networked_computers[a + 1]
               own == a = netPrev.i
           IN  /\ (is.pc # was.pc \/ is.relative_base # was.relative_base \/ is.memory # was.memory) =>
                      (NetDid("run") /\ own)
               /\ is.output # was.output => ((NetDid("run") \/ NetDid("dump")) /\ own)
               /\ is.state # was.state => ((NetDid("run") /\ own) \/ NetWoken(a))
               /\ is.input # was.input =>
                      \/ NetDid("run") /\ own /\ IsSuffix(is.input, was.input)
                      \/ NetDid("visit") /\ own /\ is.input = Append(was.input, -1)
                      \/ NetDid("route") /\ a = NetWindow[1]
                            /\ is.input = was.input \o <<NetWindow[2], NetWindow[3]>>
                      \/ NetDid("nat") /\ a = 0
                            /\ is.input = was.input \o <<netPrev.nat_x[1], netPrev.nat_y[1]>>

\* instance 1 took a step, reading a value into its memory, beside instance 0 which stayed as
\* it was, suspended with other memory
C28_Witness ==
    /\ NetDid("run")
    /\ netPrev.i = 1
    /\ NetAfter.memory # NetBefore.memory
    /\ NetAfter.pc # NetBefore.pc
    /\ Len(NetAfter.input) < Len(NetBefore.input)
    /\ net.networked_computers[1] = netPrev.networked_computers[1]
    /\ net.networked_computers[1].state = "WaitingForInput"
    /\ net.networked_computers[1].memory # NetAfter.memory

(* C29: when the Vec drained after a run is not empty and its length is
   not a multiple of 3, the driver aborts with the incomplete-packet
   diagnostic, naming the instance and the Vec, with no instance's input
   queue and no NAT packet changed; the routing loop only ever runs on a
   Vec of whole triplets. *)
C29_IncompletePacketAborts ==
    /\ NetDid("dump") =>
           IF net.output # <<>> /\ Len(net.output) % 3 # 0
           THEN /\ net.at = "aborted"
                /\ net.panic = <<"Computer produced an incomplete packet", netPrev.i, net.output>>
                /\ NetOthersUntouched({netPrev.i})
                /\ NetAfter.input = NetBefore.input
                /\ net.nat_x = netPrev.nat_x
                /\ net.nat_y = netPrev.nat_y
           ELSE net.at # "aborted"
    /\ net.at = "route" => (net.output # <<>> /\ Len(net.output) % 3 = 0)
    /\ NetDid("route") => (netPrev.output # <<>> /\ Len(netPrev.output) % 3 = 0)
    /\ (net.at = "aborted" /\ net.panic[1] = "Computer produced an incomplete packet") =>
           NetDid("dump")

\* four values drained, the first three a whole packet for instance 0: nothing is routed
C29_Witness ==
    /\ NetDid("dump")
    /\ net.at = "aborted"
    /\ net.output = <<0, 1, 2, 0>>
    /\ net.panic = <<"Computer produced an incomplete packet", 0, <<0, 1, 2, 0>>>>
    /\ net.networked_computers[1].input = <<>>

-----------------------------------------------------------------------------
(* The day7 engine: what its last turn did *)

\* the last turn was on an Input instruction whose target cell exists
Day7WasInput ==
    /\ day7.before.turns > 0
    /\ day7.before.pc \in 0..(Len(day7.before.program) - 2)
    /\ day7.before.program[day7.before.pc + 1] >= 0
    /\ day7.before.program[day7.before.pc + 1] % 100 = 3

(* C30: the day7 engine has no suspended state.  ListProgramInput hands
   out its values in list order, one per Input instruction: the k-th
   Input stores the k-th value and moves the index by one.  An Input
   reached when the list is used up aborts the process on the index
   panic of values[index], with program, pc and index as they were. *)
C30_ListInputFatalWhenExhausted ==
    /\ day7.status \in {"running", "done", "aborted"}
    /\ day7.input.index = Len(day7.reads)
    /\ day7.input.index <= Len(day7.input.values)
    /\ day7.reads = SubSeq(day7.input.values, 1, Len(day7.reads))
    /\ Day7WasInput =>
           LET was  == day7.before
               to   == was.program[was.pc + 2]
               left == was.index < Len(day7.input.values)
           IN  /\ ~left =>
                      /\ day7.status = "aborted"
                      /\ day7.panic = IndexPanic(was.index, Len(day7.input.values))
                      /\ day7.program = was.program
                      /\ day7.pc = was.pc
                      /\ day7.input.index = was.index
               /\ left =>
                      /\ day7.input.index = was.index + 1
                      /\ day7.reads[was.index + 1] = day7.input.values[was.index + 1]
                      /\ IF to \in 0..(Len(was.program) - 1)
                         THEN /\ day7.status = "running"
                              /\ day7.program = [was.program EXCEPT ![to + 1] =
                                                     day7.input.values[was.index + 1]]
                              /\ day7.pc = was.pc + 2
                         ELSE /\ day7.status = "aborted"
                              /\ day7.panic = IndexPanic(to, Len(was.program))

\* the fourth Input of a program that reads for ever finds the list 7, 8, 9 used up
C30_Witness ==
    /\ Day7WasInput
    /\ day7.input.values = <<7, 8, 9>>
    /\ day7.reads = <<7, 8, 9>>
    /\ day7.before.index = 3
    /\ day7.status = "aborted"
    /\ day7.panic = IndexPanic(3, 3)

(* C34: in every reachable state of the queue-based engine, a Computer whose
   state is WaitingForInput has an empty input queue. *)
C34_WaitingHasEmptyQueue ==
    computer.state = "WaitingForInput" => computer.input = <<>>

C34_Witness ==
    /\ Stepped(3)
    /\ computer.state = "WaitingForInput"
    /\ nread = 2
    /\ computer.input = <<>>

(* C35: run() returns the value at the back of the output queue, whether or
   not an Output instruction was executed during the call, and none exactly
   when the output queue is empty. *)
C35_RunReturnsBackOfOutput ==
    lastOp = "return" =>
        /\ returned = None <=> computer.output = <<>>
        /\ computer.output # <<>> => returned = Some(computer.output[Len(computer.output)])

\* [104,7,3,0,3,1,99] was suspended after its only Output and woken by
\* input(): the call that returns here executed Input instructions only
C35_Witness ==
    /\ loaded = <<104, 7, 3, 0, 3, 1, 99>>
    /\ lastOp = "return"
    /\ resume # None
    /\ computer.pc = 4
    /\ computer.state = "WaitingForInput"
    /\ returned = Some(7)

\* the last operation changed no memory cell except, possibly, the one at t
WroteAtMost(t) ==
    /\ DOMAIN prev.memory \subseteq DOMAIN computer.memory
    /\ \A a \in DOMAIN computer.memory :
           a # t => Memory_get(computer.memory, a) = Memory_get(prev.memory, a)

(* C36: a completed step changes at most one memory cell: Add, Multiply,
   LessThan, Equals and a satisfied Input change at most the cell of their
   write target; Output, the jumps, RelativeBaseOffset, Halt and a starved
   Input change none; relative_base changes only under RelativeBaseOffset;
   input(v) changes the input queue and the WaitingForInput-to-Runnable
   state, and nothing else. *)
C36_StepWritesOneCell ==
    /\ lastOp = "step" =>
           /\ \E t \in DOMAIN computer.memory : WroteAtMost(t)
           /\ computer.relative_base # prev.relative_base => AtOpcode(prev, 9)
    /\ \A opcode \in {1, 2, 7, 8} :
           Stepped(opcode) => WroteOnly(IndexOf(prev, 2), ThreeResult(prev))
    /\ (Stepped(3) /\ prev.input # <<>>) => WroteOnly(IndexOf(prev, 0), Head(prev.input))
    /\ (Stepped(3) /\ prev.input = <<>>) => computer.memory = prev.memory
    /\ \A opcode \in {4, 5, 6, 9, 99} :
           Stepped(opcode) => computer.memory = prev.memory
    /\ lastOp = "input" =>
           computer = [prev EXCEPT !.input = Append(prev.input, fed[Len(fed)]),
                                   !.state = IF prev.state = "WaitingForInput"
                                             THEN "Runnable"
                                             ELSE prev.state]

\* an Add that stores a new value in a cell of the program and leaves the
\* cell after it, which is not zero, alone
C36_Witness ==
    /\ Stepped(1)
    /\ Memory_get(computer.memory, IndexOf(prev, 2)) # Memory_get(prev.memory, IndexOf(prev, 2))
    /\ Memory_get(computer.memory, IndexOf(prev, 2) + 1) # 0

(* C37, as amended: in part2 a visit of an instance that is Done clears the
   idle flag and feeds nothing; a Done instance stays Done; so from the
   first pass in which an instance is Done when visited, no NAT's turn
   injects, aborts or returns: each begins the next pass and changes no
   instance.  (At the end of the pass in which an instance halted the NAT
   still takes its turn, if the instance was starved when visited.) *)
C37_NoInjectionOnceDoneVisited ==
    net.part = 2 =>
        /\ (NetDid("visit") /\ NetBefore.state = "Done") =>
               /\ ~net.idle
               /\ net.done_seen
               /\ NetAfter = NetBefore
        /\ \A a \in 1..NumComputers :
               netPrev.networked_computers[a].state = "Done" =>
                   net.networked_computers[a].state = "Done"
        /\ (NetDid("nat") /\ netPrev.done_seen) =>
               /\ ~netPrev.idle
               /\ net.at = "visit"
               /\ net.delivered = netPrev.delivered
               /\ NetOthersUntouched({})
        /\ (netPrev.done_seen /\ ~NetDid("nat")) => net.delivered = netPrev.delivered
        /\ net.done_seen => net.at # "returned"

\* the NAT holds (2, 6) and every instance is Done with an empty queue: the
\* pass after the one in which they halted ends without an injection
C37_Witness ==
    /\ net.part = 2
    /\ NetDid("nat")
    /\ netPrev.done_seen
    /\ netPrev.nat_x = Some(NumComputers - 1)
    /\ netPrev.delivered # <<>>
    /\ \A a \in 2..NumComputers : netPrev.networked_computers[a].input = <<>>
    /\ net.at = "visit"
    /\ net.passes = 3

(* C37, as stated: once an instance has halted, no NAT's turn injects a
   packet or returns the driver's answer. *)
C37_NoInjectionOnceHalted ==
    (/\ net.part = 2
     /\ NetDid("nat")
     /\ \E a \in 1..NumComputers : netPrev.networked_computers[a].state = "Done") =>
        /\ net.at # "returned"
        /\ net.delivered = netPrev.delivered
        /\ NetOthersUntouched({})

(* C38: in part2 the NAT holds a packet exactly once a window addressed to
   255 was routed; a NAT's turn after an idle pass with no packet held
   aborts the driver on unwrap() of None: nothing is injected, no instance
   changes and no further pass begins. *)
C38_IdleWithEmptyNatAborts ==
    net.part = 2 =>
        /\ net.nat_x # netPrev.nat_x => (NetDid("route") /\ NetWindow[1] = 255)
        /\ (NetDid("route") /\ NetWindow[1] = 255) =>
               (net.nat_x = Some(NetWindow[2]) /\ net.nat_y = Some(NetWindow[3]))
        /\ net.nat_x = None <=> net.nat_y = None
        /\ (NetDid("nat") /\ netPrev.idle /\ netPrev.nat_x = None) =>
               /\ net.at = "aborted"
               /\ net.panic = <<"called Option::unwrap() on a None value">>
               /\ net.delivered = <<>>
               /\ net.passes = netPrev.passes
               /\ NetOthersUntouched({})

\* [3,20,3,21,99]: every instance halts on the sentinel of the second pass,
\* which is idle, and nothing was ever sent
C38_Witness ==
    /\ net.part = 2
    /\ NetDid("nat")
    /\ netPrev.idle
    /\ netPrev.nat_x = None
    /\ netPrev.passes = 1
    /\ net.at = "aborted"
    /\ \A a \in 1..NumComputers : net.networked_computers[a].state = "Done"

(* C31: chain_output runs one amplifier per phase setting, in order, each
   from pc = 0 on the program as chain_output was given it; amplifier k is
   given its phase setting as first input and the previous amplifier's
   last output (0 for the first) as second, and reads them in that order;
   the result is the last amplifier's last output (test_chain_output:
   43210, 54321, 65210). *)
C31_ChainOutput ==
    LET d  == day7
        ps == d.phase_settings
    IN  /\ Len(d.ran) = d.k
        /\ d.k <= Len(ps)
        /\ \A j \in 1..Len(d.ran) :
               /\ d.ran[j][1] = ps[j]
               /\ d.ran[j][2] = IF j = 1 THEN 0 ELSE d.ran[j - 1][3]
               /\ d.ran[j][4] \in {<<>>, <<d.ran[j][1]>>, <<d.ran[j][1], d.ran[j][2]>>}
        /\ d.acc = IF d.k = 0 THEN 0 ELSE d.ran[d.k][3]
        /\ (d.at = "amplifier" /\ d.before.turns = 0) =>
               /\ d.program = loaded
               /\ d.pc = 0
               /\ d.input = [values |-> <<ps[d.k + 1], d.acc>>, index |-> 0]
        /\ d.at = "amplifier" =>
               d.reads = SubSeq(<<ps[d.k + 1], d.acc>>, 1, d.input.index)
        /\ d.at = "returned" =>
               /\ d.k = Len(ps)
               /\ d.result = Some(d.acc)
        /\ (d.at = "returned" /\ ps = <<4, 3, 2, 1, 0>>
              /\ loaded = <<3, 15, 3, 16, 1002, 16, 10, 16, 1, 16, 15, 15, 4, 15, 99, 0, 0>>) =>
               d.result = Some(43210)
        /\ (d.at = "returned" /\ ps = <<0, 1, 2, 3, 4>> /\ Len(loaded) = 25) =>
               d.result = Some(54321)
        /\ (d.at = "returned" /\ ps = <<1, 0, 4, 3, 2>> /\ Len(loaded) = 34) =>
               d.result = Some(65210)

\* the second example of test_chain_output has run its five amplifiers, the
\* last of which read 4 and then 5432 and left a changed copy of the program
C31_Witness ==
    /\ day7.at = "returned"
    /\ Len(loaded) = 25
    /\ day7.phase_settings = <<0, 1, 2, 3, 4>>
    /\ day7.ran[5] = <<4, 5432, 54321, <<4, 5432>>>>
    /\ day7.program # loaded
    /\ day7.result = Some(54321)

\* the unit step of a direction, y growing downwards
RobotStep(direction) ==
    CASE direction = "Up"    -> <<0, -1>>
      [] direction = "Right" -> <<1, 0>>
      [] direction = "Down"  -> <<0, 1>>
      [] direction = "Left"  -> <<-1, 0>>

\* the colour value position p was last painted with, 0 if it never was
RECURSIVE LastPainted(_, _, _)
LastPainted(log, p, k) ==
    IF k = 0 THEN 0
    ELSE IF log[k][1] = p THEN log[k][2]
    ELSE LastPainted(log, p, k - 1)

(* C32: the robot's completed output() calls alternate: the 1st, 3rd,
   5th... paints the panel under the robot (white for 1, black for 0) and
   leaves position, direction and every other panel alone; the 2nd, 4th,
   6th... leaves the panels alone, turns the robot a quarter (left for 0,
   right for 1) and moves it one panel in its new direction; input()
   returns the colour last painted on the panel under the robot, 0 if it
   was never painted, and changes nothing; an output value other than 0
   and 1 aborts the run. *)
C32_RobotAlternates ==
    LET r == io.robot
        b == io.before
    IN  /\ r.next_input = IF io.outputs % 2 = 0 THEN "Paint" ELSE "Turn"
        /\ (io.last = "output" /\ io.status = "running" /\ io.outputs % 2 = 1) =>
               /\ r.position = b.position
               /\ r.direction = b.direction
               /\ DOMAIN r.panels = (DOMAIN b.panels) \cup {b.position}
               /\ r.panels[b.position] = IF io.value = 1 THEN "White" ELSE "Black"
               /\ \A p \in DOMAIN b.panels : p # b.position => r.panels[p] = b.panels[p]
        /\ (io.last = "output" /\ io.status = "running" /\ io.outputs % 2 = 0) =>
               /\ r.panels = b.panels
               /\ r.position = [x |-> b.position.x + RobotStep(r.direction)[1],
                                y |-> b.position.y + RobotStep(r.direction)[2]]
               /\ RobotStep(r.direction) =
                      IF io.value = 1
                      THEN <<-RobotStep(b.direction)[2], RobotStep(b.direction)[1]>>
                      ELSE <<RobotStep(b.direction)[2], -RobotStep(b.direction)[1]>>
        /\ io.last = "input" =>
               /\ r = b
               /\ io.status = "running"
               /\ io.read = LastPainted(io.painted, r.position, Len(io.painted))
        /\ io.last = "output" => (io.status = "aborted") = (io.value \notin {0, 1})
        /\ io.status = "aborted" => r = b

\* after paint, turn left, paint, turn left the robot reads the panel it has
\* come to, which was never painted
C32_Witness ==
    /\ io.last = "input"
    /\ io.outputs = 4
    /\ Len(io.painted) = 2
    /\ io.robot.position = [x |-> -1, y |-> 1]
    /\ io.robot.position \notin DOMAIN io.robot.panels
    /\ io.read = 0

(* C33: the game takes its output values in groups of three (x, y, value):
   the first and the second value of a group change neither the tiles nor
   the score; the third sets the score to value when (x, y) = (-1, 0) and
   leaves the tiles alone, and otherwise stores the tile of value at
   (x, y) and leaves the score and every other position alone; after it
   the game expects an x again.  A third value that is not a tile id,
   outside (-1, 0), aborts the run. *)
C33_GameTriples ==
    LET g == io.game
        b == io.before
        n == Len(io.values)
        x == io.values[n - 2]
        y == io.values[n - 1]
        v == io.values[n]
    IN  /\ g.input.next_state = CASE n % 3 = 0 -> "X" [] n % 3 = 1 -> "Y" [] n % 3 = 2 -> "TileId"
        /\ (io.last = "output" /\ io.status = "running" /\ n % 3 # 0) =>
               /\ g.tiles = b.tiles
               /\ g.score = b.score
        /\ (io.last = "output" /\ io.status = "running" /\ n % 3 = 0) =>
               IF x = -1 /\ y = 0
               THEN /\ g.score = v
                    /\ g.tiles = b.tiles
               ELSE /\ g.score = b.score
                    /\ DOMAIN g.tiles = (DOMAIN b.tiles) \cup {[x |-> x, y |-> y]}
                    /\ g.tiles[[x |-> x, y |-> y]] =
                           CASE v = 0 -> "Empty" [] v = 1 -> "Wall" [] v = 2 -> "Block"
                             [] v = 3 -> "Paddle" [] v = 4 -> "Ball"
                    /\ \A p \in DOMAIN b.tiles :
                           p # [x |-> x, y |-> y] => g.tiles[p] = b.tiles[p]
        /\ io.status = "aborted" =>
               /\ g = b
               /\ n % 3 = 2
               /\ <<io.values[n - 1], io.values[n]>> # <<-1, 0>>

\* a paddle was stored at (-1, 1), then the score 5 arrived at (-1, 0)
C33_Witness ==
    /\ io.last = "output"
    /\ io.values = <<-1, 1, 3, -1, 0, 5>>
    /\ io.game.score = 5
    /\ io.game.tiles[[x |-> -1, y |-> 1]] = "Paddle"
    /\ io.game.input.next_state = "X"

(* C39: run on the same program with the same input values, the callback
   engine of day9 and the queue-based engine of day17 go through the same
   states for as long as the latter is not suspended: the same output
   sequence, memory, pc and input values left, the usize relative_base of
   the former holding the bits of the i64 relative_base of the latter, and
   each halts exactly when the other does; and neither aborts unless the
   other does. *)
C39_EnginesEquivalent ==
    /\ (panic = NoPanic) = (day9.status # "aborted")
    /\ (computer.state = "WaitingForInput") = (day9.status = "starved")
    /\ (panic = NoPanic /\ computer.state # "WaitingForInput") =>
           /\ day9.output = computer.output
           /\ day9.memory = computer.memory
           /\ day9.pc = computer.pc
           /\ day9.relative_base = I64(computer.relative_base)
           /\ computer.input = SubSeq(fed, day9.input.index + 1, Len(fed))
           /\ (day9.status = "done") = (computer.state = "Done")

\* [109,-1,204,1,99] of day9's test_run has halted in both engines with the
\* output 109, day9's relative_base being 2^64 - 1 and day17's -1
C39_Witness ==
    /\ loaded = <<109, -1, 204, 1, 99>>
    /\ day9.status = "done"
    /\ computer.state = "Done"
    /\ \A i \in 1..8 : day9.relative_base[i] = 255
    /\ computer.relative_base = -1
    /\ day9.output = <<109>>

=============================================================================
